---- MODULE Spec2Model ----
(***************************************************************************)
(* Model of the telemetry package of optl: the provider lifecycle          *)
(* (NewProvider / Provider.Shutdown with the log, trace and metric         *)
(* sub-providers), span-scoped execution (WithSpan), the errgroup          *)
(* combinators and the multi-exporter compositions.                        *)
(*                                                                         *)
(* External operations that can fail (SDK constructors, dials, exporter    *)
(* shutdowns, logger sync) are named steps; the environment chooses, per   *)
(* call, the set F of steps that fail when attempted.                      *)
(***************************************************************************)
EXTENDS Integers, Sequences, FiniteSets, TLC

VARIABLES
    pc,           \* position of the caller: "start", "ready" (holds a provider), "failed"
    cfg,          \* Provider.config
    provider,     \* the *Provider returned by NewProvider (NoProvider: nil)
    newErr,       \* the error returned by NewProvider (NoErr: nil)
    events,       \* ordered log of calls, sink constructions, teardowns and returns
    shutdownLog,  \* one record per executed Provider.Shutdown: its result and its events
    stack,        \* active WithSpan calls, innermost last
    spans,        \* span id -> the span's recorded state
    logs,         \* zap events written by WithSpan
    appLogs,      \* the last zap event other code wrote through LoggerWithContext
    panicking,    \* a panic raised by a work function is unwinding the stack
    done,         \* completed WithSpan calls: what work returned, what WithSpan returned
    gPc,          \* position of the combinator call: "idle", "running" (loop and Wait), "returned"
    gKind,        \* the combinator called
    gItems,       \* len(items)
    gLimit,       \* the concurrency argument (-1 for a combinator that takes none)
    gNext,        \* loop index: the next item to hand to g.Go
    grp,          \* the errgroup.Group and its derived context
    tasks,        \* loop index -> the goroutine started for it
    parentCancelled, \* the context passed to the combinator is cancelled
    gRet,         \* what the combinator returned
    sibCancelled, \* another context derived from the caller's context is cancelled
    xKind,        \* the composition built: "none", "multiSpanExporter", "multiMetricExporter"
    xSinks,       \* the wrapped exporters, in registration order
    xSends,       \* number of batches handed to the composition
    xSend,        \* the last ExportSpans / Export call: its batch, faults, offers and result
    xDown,        \* the last Shutdown call: its faults, invocations and result
    sRuns,        \* times SetupTracing has configured the sampler (0: not yet)
    sRatio,       \* cfg.SamplingRatio
    sNaN,         \* what this build's uint64 conversion yields for a NaN product
    sampler,      \* the sdktrace.Sampler handed to the tracer provider
    sSeen,        \* trace identifier -> the decisions taken for it so far
    exMode,       \* the example run: "none", "basic" (runBasicExample), "services" (runServicesDemo)
    exPc,         \* position of the example's main goroutine
    exProvider,   \* initTelemetry returned a provider
    exDefers,     \* the deferred calls registered so far, in registration order
    exItems,      \* work item / test datum -> "pending", "running", "ok", "err"
    exShutdowns,  \* number of Provider.Shutdown invocations
    exExit,       \* how the process ended: "running", "return", "os.Exit"
    stData,       \* Storage.data: id -> whether the key is present, and its bytes
    stMu,         \* Storage.mu: the goroutine holding the write lock (0: none), the readers
    stCalls,      \* goroutine -> its current StoreData / GetData call
    stMade,       \* number of calls made so far
    stDone,       \* id -> the last write whose locked section has completed
    prPc,         \* position of the ProcessData call: "idle", the stage to run, "returned"
    prMade,       \* number of ProcessData calls made so far
    prArgs,       \* the dataID and data of the current call
    prData,       \* the value handed from one stage to the next
    prStages,     \* the stages the current call has run, with the error of each
    prTable,      \* the data map of the processor's Storage
    prBefore,     \* that map when the current call was made
    prRet         \* what ProcessData returned

provVars == <<pc, cfg, provider, newErr, events, shutdownLog>>
spanVars == <<stack, spans, logs, appLogs, panicking, done>>
grpVars == <<gPc, gKind, gItems, gLimit, gNext, grp, tasks, parentCancelled, gRet,
            sibCancelled>>
expVars == <<xKind, xSinks, xSends, xSend, xDown>>
smpVars == <<sRuns, sRatio, sNaN, sampler, sSeen>>
exVars == <<exMode, exPc, exProvider, exDefers, exItems, exShutdowns, exExit>>
stVars == <<stData, stMu, stCalls, stMade, stDone>>
prVars == <<prPc, prMade, prArgs, prData, prStages, prTable, prBefore, prRet>>
appVars == <<exVars, stVars, prVars>>
libVars == <<provVars, spanVars, grpVars, expVars, smpVars>>
vars == <<pc, cfg, provider, newErr, events, shutdownLog,
          stack, spans, logs, appLogs, panicking, done,
          gPc, gKind, gItems, gLimit, gNext, grp, tasks, parentCancelled, gRet,
          sibCancelled,
          xKind, xSinks, xSends, xSend, xDown,
          sRuns, sRatio, sNaN, sampler, sSeen,
          exMode, exPc, exProvider, exDefers, exItems, exShutdowns, exExit,
          stData, stMu, stCalls, stMade, stDone,
          prPc, prMade, prArgs, prData, prStages, prTable, prBefore, prRet>>

(***************************************************************************)
(* Bounds                                                                  *)
(***************************************************************************)
\* Provider.Shutdown calls made by the caller on one provider.
MaxShutdownCalls == 2
\* WithSpan calls made in one run, and how deep they nest.
MaxSpans == 3
MaxDepth == 2
\* Items handed to a fan-out, and the largest concurrency argument.
MaxItems == 3
MaxLimit == 2
\* Exporters wrapped by one composition, and batches handed to it.
MaxSinks == 3
MaxSends == 2
\* Sampling ratios are multiples of 1 / RatioScale; trace identifiers are
\* 0 .. MaxTraceID; the sampler is configured at most MaxRuns times.
RatioScale == 4
MaxTraceID == 5
MaxRuns == 2

\* The example program processes MaxWorkItems work items (test data).
MaxWorkItems == 3

\* Storage is used by MaxGoroutines goroutines, which make MaxStoreCalls calls in all.
MaxGoroutines == 2
MaxStoreCalls == 3

\* ProcessData is called MaxProcessCalls times.
MaxProcessCalls == 2

(***************************************************************************)
(* Errors and events                                                       *)
(***************************************************************************)
\* A Go error is the sequence of its wrapping messages, root cause last; nil is <<>>.
NoErr == <<>>

\* fmt.Errorf("<msg>: %w", err)
Wrap(msg, err) == <<msg>> \o err

Ev(op, target, err) == [op |-> op, target |-> target, err |-> err]

\* First position of an event with this op and target, 0 when there is none.
Pos(ev, op, target) ==
    LET S == {i \in DOMAIN ev : ev[i].op = op /\ ev[i].target = target}
    IN  IF S = {} THEN 0 ELSE CHOOSE i \in S : \A j \in S : i <= j

Count(ev, op, target) ==
    Cardinality({i \in DOMAIN ev : ev[i].op = op /\ ev[i].target = target})

(***************************************************************************)
(* Configuration                                                           *)
(***************************************************************************)
Configs ==
    [EnableMetrics : BOOLEAN,
     EnableConsoleExporter : BOOLEAN,
     OTLPEndpoint : {"", "collector:4317"},
     TLSEnabled : BOOLEAN]

ZeroConfig ==
    [EnableMetrics |-> FALSE, EnableConsoleExporter |-> FALSE,
     OTLPEndpoint |-> "", TLSEnabled |-> FALSE]

\* Fallible external steps of initialization.
InitSteps ==
    {"log.Build",
     "trace.createResource", "trace.stdout.New", "trace.createTLSConfig",
     "trace.Dial", "trace.otlp.New",
     "metric.createResource", "metric.stdout.New", "metric.createTLSConfig",
     "metric.Dial", "metric.otlp.New", "metric.runtime.Start"}

\* Fallible external steps of teardown.
\* Each is named by the sink whose Shutdown (for the logger: Sync) fails.
TeardownSteps ==
    {"log.logger",
     "trace.sdk", "trace.console", "trace.otlp",
     "metric.sdk", "metric.console", "metric.otlp"}

\* Every Setup* function returns at the first step that fails and NewProvider
\* returns at the first Setup* that fails, so a set of failing initialization
\* steps acts as its first attempted member: the environment chooses at most one.
InitFaults == {{}} \cup {{s} : s \in InitSteps}

\* The teardowns NewProvider can reach on its error exits: log and trace.
ExitTeardownSteps == {"log.logger", "trace.sdk", "trace.console", "trace.otlp"}

(***************************************************************************)
(* Sub-providers                                                           *)
(***************************************************************************)
\* A sub-provider handle: present (non-nil pointer), whether it holds an SDK
\* provider, and its cleanup chain (the exporters it shuts down, in order).
NilHandle == [present |-> FALSE, sdk |-> FALSE, cleanup |-> <<>>]

Handle(sdk, cleanup) == [present |-> TRUE, sdk |-> sdk, cleanup |-> cleanup]

NoProvider ==
    [present |-> FALSE, logProvider |-> NilHandle, traceProvider |-> NilHandle,
     metricProvider |-> NilHandle]

\* Result of a Setup* call.
SetupResult(h, err, ev) == [h |-> h, err |-> err, ev |-> ev]

\* Result of a teardown call.
DownResult(err, ev) == [err |-> err, ev |-> ev]

\* SetupLogging: zapCfg.Build may fail.
SetupLogging(c, F) ==
    IF "log.Build" \in F
    THEN SetupResult(NilHandle, <<"log.Build">>,
                     <<Ev("call", "SetupLogging", NoErr),
                       Ev("return", "SetupLogging", <<"log.Build">>)>>)
    ELSE SetupResult(Handle(FALSE, <<>>), NoErr,
                     <<Ev("call", "SetupLogging", NoErr),
                       Ev("new", "log.logger", NoErr),
                       Ev("return", "SetupLogging", NoErr)>>)

\* Shutdown of the sink named x; the error names the sink.
SinkShutdown(x, F) ==
    DownResult(IF x \in F THEN <<x>> ELSE NoErr, <<Ev("shutdown", x, NoErr)>>)

\* LogProvider.Shutdown: lp.logger.Sync().
LogProviderShutdown(lp, F) ==
    LET s == SinkShutdown("log.logger", F)
    IN  DownResult(s.err,
                   <<Ev("shutdown", "LogProvider", NoErr)>> \o s.ev
                       \o <<Ev("done", "LogProvider", s.err)>>)

\* SetupTracing, the OTLP exporter block: TLS config, dial, exporter creation,
\* then the exporter joins the cleanup chain.
TraceOTLP(c, F, ev, cleanup) ==
    IF c.OTLPEndpoint = ""
    THEN SetupResult(Handle(TRUE, cleanup), NoErr, ev)
    ELSE IF c.TLSEnabled /\ "trace.createTLSConfig" \in F
    THEN SetupResult(NilHandle,
                     Wrap("failed to create TLS config", <<"trace.createTLSConfig">>), ev)
    ELSE IF "trace.Dial" \in F
    THEN SetupResult(NilHandle,
                     Wrap("failed to connect to OTLP endpoint", <<"trace.Dial">>), ev)
    ELSE IF "trace.otlp.New" \in F
    THEN SetupResult(NilHandle,
                     Wrap("failed to create OTLP exporter", <<"trace.otlp.New">>), ev)
    ELSE SetupResult(Handle(TRUE, Append(cleanup, "trace.otlp")), NoErr,
                     Append(ev, Ev("new", "trace.otlp", NoErr)))

\* SetupTracing, the console exporter block and what follows it.
TraceConsole(c, F) ==
    IF ~c.EnableConsoleExporter
    THEN TraceOTLP(c, F, <<>>, <<>>)
    ELSE IF "trace.stdout.New" \in F
    THEN SetupResult(NilHandle,
                     Wrap("failed to create stdout exporter", <<"trace.stdout.New">>), <<>>)
    ELSE TraceOTLP(c, F, <<Ev("new", "trace.console", NoErr)>>, <<"trace.console">>)

\* SetupTracing: resource, exporters, then the SDK tracer provider.
SetupTracing(c, F) ==
    LET r == IF "trace.createResource" \in F
             THEN SetupResult(NilHandle,
                              Wrap("failed to create resource", <<"trace.createResource">>),
                              <<>>)
             ELSE TraceConsole(c, F)
        made == IF r.err = NoErr THEN <<Ev("new", "trace.sdk", NoErr)>> ELSE <<>>
    IN  SetupResult(r.h, r.err,
                    <<Ev("call", "SetupTracing", NoErr)>> \o r.ev \o made
                        \o <<Ev("return", "SetupTracing", r.err)>>)

\* The cleanup closure built by SetupTracing: every exporter of the chain is shut
\* down, and the first error is the one returned.
RECURSIVE TraceCleanup(_, _)
TraceCleanup(cleanup, F) ==
    IF cleanup = <<>>
    THEN DownResult(NoErr, <<>>)
    ELSE LET old == TraceCleanup(SubSeq(cleanup, 1, Len(cleanup) - 1), F)
             own == SinkShutdown(cleanup[Len(cleanup)], F)
         IN  DownResult(IF old.err # NoErr THEN old.err ELSE own.err, old.ev \o own.ev)

\* tp.provider.Shutdown: the SDK provider shuts its batch processor down, and the
\* processor shuts down the exporter SetupTracing registered with it: the single
\* exporter, or the multi-exporter, which shuts down every exporter of the chain.
\* These invocations are logged as "exporter.shutdown".
SdkTracerShutdown(tp, F) ==
    LET s == SinkShutdown("trace.sdk", F)
    IN  DownResult(s.err,
                   s.ev \o [i \in 1..Len(tp.cleanup) |->
                                Ev("exporter.shutdown", tp.cleanup[i], NoErr)])

\* TraceProvider.Shutdown: the SDK provider first; cleanup only when that succeeded.
TraceProviderShutdown(tp, F) ==
    LET sdk == SdkTracerShutdown(tp, F)
        r == IF sdk.err # NoErr
             THEN sdk
             ELSE IF tp.cleanup # <<>>
             THEN LET cl == TraceCleanup(tp.cleanup, F)
                  IN  DownResult(cl.err, sdk.ev \o cl.ev)
             ELSE sdk
    IN  DownResult(r.err,
                   <<Ev("shutdown", "TraceProvider", NoErr)>> \o r.ev
                       \o <<Ev("done", "TraceProvider", r.err)>>)

\* SetupMetrics, the OTLP exporter block.
MetricOTLP(c, F, ev, cleanup) ==
    IF c.OTLPEndpoint = ""
    THEN SetupResult(Handle(FALSE, cleanup), NoErr, ev)
    ELSE IF c.TLSEnabled /\ "metric.createTLSConfig" \in F
    THEN SetupResult(NilHandle,
                     Wrap("failed to create TLS config", <<"metric.createTLSConfig">>), ev)
    ELSE IF "metric.Dial" \in F
    THEN SetupResult(NilHandle,
                     Wrap("failed to connect to OTLP endpoint", <<"metric.Dial">>), ev)
    ELSE IF "metric.otlp.New" \in F
    THEN SetupResult(NilHandle,
                     Wrap("failed to create OTLP metric exporter", <<"metric.otlp.New">>), ev)
    ELSE SetupResult(Handle(FALSE, Append(cleanup, "metric.otlp")), NoErr,
                     Append(ev, Ev("new", "metric.otlp", NoErr)))

\* SetupMetrics, the console exporter block and what follows it.
MetricConsole(c, F) ==
    IF ~c.EnableConsoleExporter
    THEN MetricOTLP(c, F, <<>>, <<>>)
    ELSE IF "metric.stdout.New" \in F
    THEN SetupResult(NilHandle,
                     Wrap("failed to create stdout metric exporter", <<"metric.stdout.New">>),
                     <<>>)
    ELSE MetricOTLP(c, F, <<Ev("new", "metric.console", NoErr)>>, <<"metric.console">>)

\* SetupMetrics, after the readers are built: no reader, no meter provider;
\* otherwise the meter provider is created and runtime metrics are started.
MetricMeterProvider(r, F) ==
    IF r.err # NoErr
    THEN r
    ELSE IF r.h.cleanup = <<>>
    THEN SetupResult(Handle(FALSE, <<>>), NoErr, r.ev)
    ELSE IF "metric.runtime.Start" \in F
    THEN SetupResult(NilHandle,
                     Wrap("failed to start runtime metrics", <<"metric.runtime.Start">>),
                     Append(r.ev, Ev("new", "metric.sdk", NoErr)))
    ELSE SetupResult(Handle(TRUE, r.h.cleanup), NoErr,
                     Append(r.ev, Ev("new", "metric.sdk", NoErr)))

\* SetupMetrics.
SetupMetrics(c, F) ==
    LET r == IF ~c.EnableMetrics
             THEN SetupResult(NilHandle, NoErr, <<>>)
             ELSE IF "metric.createResource" \in F
             THEN SetupResult(NilHandle,
                              Wrap("failed to create resource", <<"metric.createResource">>),
                              <<>>)
             ELSE MetricMeterProvider(MetricConsole(c, F), F)
    IN  SetupResult(r.h, r.err,
                    <<Ev("call", "SetupMetrics", NoErr)>> \o r.ev
                        \o <<Ev("return", "SetupMetrics", r.err)>>)

\* The cleanup closure built by SetupMetrics: the chain stops at the first
\* exporter whose Shutdown fails.
RECURSIVE MetricCleanup(_, _)
MetricCleanup(cleanup, F) ==
    IF cleanup = <<>>
    THEN DownResult(NoErr, <<>>)
    ELSE LET prev == MetricCleanup(SubSeq(cleanup, 1, Len(cleanup) - 1), F)
             own == SinkShutdown(cleanup[Len(cleanup)], F)
         IN  IF prev.err # NoErr
             THEN prev
             ELSE DownResult(own.err, prev.ev \o own.ev)

\* MetricProvider.Shutdown.
MetricProviderShutdown(mp, F) ==
    LET sdk == IF mp.sdk THEN SinkShutdown("metric.sdk", F) ELSE DownResult(NoErr, <<>>)
        r == IF sdk.err # NoErr
             THEN sdk
             ELSE IF mp.cleanup # <<>>
             THEN LET cl == MetricCleanup(mp.cleanup, F)
                  IN  DownResult(cl.err, sdk.ev \o cl.ev)
             ELSE sdk
    IN  DownResult(r.err,
                   <<Ev("shutdown", "MetricProvider", NoErr)>> \o r.ev
                       \o <<Ev("done", "MetricProvider", r.err)>>)

(***************************************************************************)
(* Provider                                                                *)
(***************************************************************************)
NewResult(p, err, ev) == [provider |-> p, err |-> err, ev |-> ev]

\* Mutant of NewProviderMetrics: the metrics error exit tears down the log
\* provider only and leaves the trace provider running.
NewProviderMetrics_TraceLeft(c, F, lp, tp, ev) ==
    IF ~c.EnableMetrics
    THEN NewResult([present |-> TRUE, logProvider |-> lp, traceProvider |-> tp,
                    metricProvider |-> NilHandle], NoErr, ev)
    ELSE LET m == SetupMetrics(c, F)
         IN  IF m.err # NoErr
             THEN NewResult(NoProvider, Wrap("failed to setup metrics", m.err),
                            ev \o m.ev \o LogProviderShutdown(lp, F).ev)
             ELSE NewResult([present |-> TRUE, logProvider |-> lp, traceProvider |-> tp,
                             metricProvider |-> m.h], NoErr, ev \o m.ev)

\* NewProvider, the metrics stage (only when cfg.EnableMetrics).
NewProviderMetrics(c, F, lp, tp, ev) ==
    IF ~c.EnableMetrics
    THEN NewResult([present |-> TRUE, logProvider |-> lp, traceProvider |-> tp,
                    metricProvider |-> NilHandle], NoErr, ev)
    ELSE LET m == SetupMetrics(c, F)
         IN  IF m.err # NoErr
             THEN NewResult(NoProvider, Wrap("failed to setup metrics", m.err),
                            ev \o m.ev \o LogProviderShutdown(lp, F).ev
                               \o TraceProviderShutdown(tp, F).ev)
             ELSE NewResult([present |-> TRUE, logProvider |-> lp, traceProvider |-> tp,
                             metricProvider |-> m.h], NoErr, ev \o m.ev)

\* Mutant of NewProviderTracing: the trace error exit returns without shutting
\* the log provider down.
NewProviderTracing_LogLeft(c, F, lp, ev) ==
    LET t == SetupTracing(c, F)
    IN  IF t.err # NoErr
        THEN NewResult(NoProvider, Wrap("failed to setup tracing", t.err), ev \o t.ev)
        ELSE NewProviderMetrics(c, F, lp, t.h, ev \o t.ev)

\* Mutant of NewProviderTracing: a failing log teardown on the trace error exit
\* replaces the initialization error.
NewProviderTracing_Masked(c, F, lp, ev) ==
    LET t == SetupTracing(c, F)
        d == LogProviderShutdown(lp, F)
    IN  IF t.err # NoErr
        THEN NewResult(NoProvider,
                       IF d.err # NoErr
                       THEN Wrap("failed to shutdown logging", d.err)
                       ELSE Wrap("failed to setup tracing", t.err),
                       ev \o t.ev \o d.ev)
        ELSE NewProviderMetrics(c, F, lp, t.h, ev \o t.ev)

\* NewProvider, the trace stage and what follows it.
NewProviderTracing(c, F, lp, ev) ==
    LET t == SetupTracing(c, F)
    IN  IF t.err # NoErr
        THEN NewResult(NoProvider, Wrap("failed to setup tracing", t.err),
                       ev \o t.ev \o LogProviderShutdown(lp, F).ev)
        ELSE NewProviderMetrics(c, F, lp, t.h, ev \o t.ev)

\* NewProvider: log, then trace, then metrics; the teardown results of the error
\* exits are discarded.
NewProvider(c, F) ==
    LET l == SetupLogging(c, F)
    IN  IF l.err # NoErr
        THEN NewResult(NoProvider, Wrap("failed to setup logging", l.err), l.ev)
        ELSE NewProviderTracing(c, F, l.h, l.ev)

ShutdownResult(errs, ev) == [isNil |-> errs = <<>>, errs |-> errs, ev |-> ev]

\* Mutant of ShutdownStage: fail-fast, a stage is skipped once an earlier one
\* has failed.
ShutdownStage_FailFast(acc, present, r, msg) ==
    IF ~present \/ acc.errs # <<>>
    THEN acc
    ELSE [errs |-> IF r.err # NoErr THEN Append(acc.errs, Wrap(msg, r.err)) ELSE acc.errs,
          ev |-> acc.ev \o r.ev]

\* One teardown stage of Provider.Shutdown: skipped for a nil sub-provider; a
\* failure is wrapped and appended to errs.
ShutdownStage(acc, present, r, msg) ==
    IF ~present
    THEN acc
    ELSE [errs |-> IF r.err # NoErr THEN Append(acc.errs, Wrap(msg, r.err)) ELSE acc.errs,
          ev |-> acc.ev \o r.ev]

\* Mutant of ProviderShutdown: the trace provider is shut down before the
\* metric provider.
ProviderShutdown_TraceFirst(p, F) ==
    LET a0 == [errs |-> <<>>, ev |-> <<>>]
        a1 == ShutdownStage(a0, p.traceProvider.present,
                            TraceProviderShutdown(p.traceProvider, F),
                            "failed to shutdown tracing")
        a2 == ShutdownStage(a1, p.metricProvider.present,
                            MetricProviderShutdown(p.metricProvider, F),
                            "failed to shutdown metrics")
        a3 == ShutdownStage(a2, p.logProvider.present,
                            LogProviderShutdown(p.logProvider, F),
                            "failed to shutdown logging")
    IN  ShutdownResult(a3.errs, a3.ev)

\* Provider.Shutdown: metrics, then trace, then log, every stage attempted; nil
\* when errs is empty, else the aggregate of errs.
ProviderShutdown(p, F) ==
    LET a0 == [errs |-> <<>>, ev |-> <<>>]
        a1 == ShutdownStage(a0, p.metricProvider.present,
                            MetricProviderShutdown(p.metricProvider, F),
                            "failed to shutdown metrics")
        a2 == ShutdownStage(a1, p.traceProvider.present,
                            TraceProviderShutdown(p.traceProvider, F),
                            "failed to shutdown tracing")
        a3 == ShutdownStage(a2, p.logProvider.present,
                            LogProviderShutdown(p.logProvider, F),
                            "failed to shutdown logging")
    IN  ShutdownResult(a3.errs, a3.ev)

(***************************************************************************)
(* Provider lifecycle: the caller creates a provider, then shuts it down    *)
(***************************************************************************)
InitProvider ==
    /\ pc = "start"
    /\ cfg = ZeroConfig
    /\ provider = NoProvider
    /\ newErr = NoErr
    /\ events = <<>>
    /\ shutdownLog = <<>>

InitSpan ==
    /\ stack = <<>>
    /\ spans = <<>>
    /\ logs = <<>>
    /\ appLogs = <<>>
    /\ panicking = FALSE
    /\ done = <<>>

\* No combinator has been called; the caller's context is live.
InitGroup ==
    /\ gPc = "idle"
    /\ gKind = "GoForEach"
    /\ gItems = 0
    /\ gLimit = -1
    /\ gNext = 1
    /\ grp = [cancelled |-> FALSE, err |-> <<>>, errOnce |-> FALSE,
              limited |-> FALSE, cap |-> 0, sem |-> 0, wg |-> 0]
    /\ tasks = <<>>
    /\ parentCancelled = FALSE
    /\ gRet = <<>>
    /\ sibCancelled = FALSE

NoSend == [batch |-> 0, failing |-> {}, offered |-> <<>>, err |-> <<>>]
NoDown == [ran |-> FALSE, failing |-> {}, called |-> <<>>, isNil |-> TRUE, errs |-> <<>>]

InitExporter ==
    /\ xKind = "none"
    /\ xSinks = <<>>
    /\ xSends = 0
    /\ xSend = NoSend
    /\ xDown = NoDown

NoSampler == [kind |-> "none", bound |-> 0]
Unseen == [decisions |-> {}, again |-> FALSE]

InitSampler ==
    /\ sRuns = 0
    /\ sRatio = [nan |-> FALSE, num |-> RatioScale]
    /\ sNaN = 0
    /\ sampler = NoSampler
    /\ sSeen = [id \in 0 .. MaxTraceID |-> Unseen]

\* The example program has not started.
InitExample ==
    /\ exMode = "none"
    /\ exPc = "start"
    /\ exProvider = FALSE
    /\ exDefers = <<>>
    /\ exItems = <<>>
    /\ exShutdowns = 0
    /\ exExit = "running"

\* if len(data) > 1000000
MaxStoreSize == 1000000

\* A byte slice, by its identity and its length; NilData is the nil slice.
NilData == [tag |-> 0, len |-> 0]
Payloads == {[tag |-> 1, len |-> MaxStoreSize], [tag |-> 2, len |-> MaxStoreSize + 1]}
StoreIDs == {"a", "b"}

\* What a map lookup yields: exists, and the bytes.
NoEntry == [exists |-> FALSE, data |-> NilData]
NoCall == [op |-> "none", pc |-> "idle", id |-> "", data |-> NilData, before |-> NoEntry,
           clean |-> TRUE, seen |-> NoEntry, got |-> NoEntry, ret |-> NilData,
           err |-> <<>>]

\* NewStorage: an empty map, an unlocked mutex.
InitStorage ==
    /\ stData = [id \in StoreIDs |-> NoEntry]
    /\ stMu = [writer |-> 0, readers |-> {}]
    /\ stCalls = [g \in 1 .. MaxGoroutines |-> NoCall]
    /\ stMade = 0
    /\ stDone = [id \in StoreIDs |-> NoEntry]

\* A byte slice in the processing pipeline: nil or not, its length, the input it
\* derives from and the transformations applied to it.
NilSlice == [nil |-> TRUE, len |-> 0, tag |-> 0, ops |-> <<>>]
Slice(tag, len) == [nil |-> FALSE, len |-> len, tag |-> tag, ops |-> <<>>]
ProcessInputs ==
    {NilSlice} \cup {Slice(1, len) : len \in {0, 1, MaxStoreSize, MaxStoreSize + 1}}

NoArgs == [id |-> "", data |-> NilSlice]
NoReturn == [data |-> NilSlice, err |-> <<>>]

\* NewProcessor with a new Storage: no call made, an empty map.
InitProcessor ==
    /\ prPc = "idle"
    /\ prMade = 0
    /\ prArgs = NoArgs
    /\ prData = NilSlice
    /\ prStages = <<>>
    /\ prTable = [id \in StoreIDs |-> [exists |-> FALSE, data |-> NilSlice]]
    /\ prBefore = [id \in StoreIDs |-> [exists |-> FALSE, data |-> NilSlice]]
    /\ prRet = NoReturn

Init == InitProvider /\ InitSpan /\ InitGroup /\ InitExporter /\ InitSampler
        /\ InitExample /\ InitStorage /\ InitProcessor

CallNewProvider ==
    /\ pc = "start"
    /\ \E c \in Configs, Fi \in InitFaults, Ft \in SUBSET ExitTeardownSteps :
          LET r == NewProvider(c, Fi \cup Ft)
          IN  /\ cfg' = c
              /\ provider' = r.provider
              /\ newErr' = r.err
              /\ events' = events \o r.ev
              /\ pc' = IF r.err = NoErr THEN "ready" ELSE "failed"
    /\ UNCHANGED <<shutdownLog>>
    /\ UNCHANGED <<spanVars, grpVars, expVars, smpVars, appVars>>

CallShutdown ==
    /\ pc = "ready"
    /\ Len(shutdownLog) < MaxShutdownCalls
    /\ \E F \in SUBSET TeardownSteps :
          LET r == ProviderShutdown(provider, F)
          IN  /\ shutdownLog' = Append(shutdownLog, r)
              /\ events' = events \o r.ev
    /\ UNCHANGED <<pc, cfg, provider, newErr>>
    /\ UNCHANGED <<spanVars, grpVars, expVars, smpVars, appVars>>

NextProvider == CallNewProvider \/ CallShutdown

SpecProvider == Init /\ [][NextProvider]_vars

(***************************************************************************)
(* Span-scoped execution: WithSpan                                         *)
(***************************************************************************)
SpanNames == {"a", "b"}

\* The non-nil errors a work function returns.
WorkErrors == {<<"E1">>, <<"E2">>}

\* Tracer.Start: a new recording span under parent (0: no parent span).
SpanStart(name, parent) ==
    [name |-> name, parent |-> parent, status |-> "Unset", statusMsg |-> NoErr,
     recorded |-> <<>>, ended |-> FALSE, ops |-> <<"Start">>]

\* span.RecordError: kept only while the span is recording.
SpanRecordError(s, err) ==
    [s EXCEPT !.recorded = IF s.ended THEN @ ELSE Append(@, err),
              !.ops = Append(@, "RecordError")]

\* span.SetStatus(codes.Error, err.Error()): kept only while the span is recording.
SpanSetStatus(s, err) ==
    [s EXCEPT !.status = IF s.ended THEN @ ELSE "Error",
              !.statusMsg = IF s.ended THEN @ ELSE err,
              !.ops = Append(@, "SetStatus")]

\* span.End.
SpanEnd(s) == [s EXCEPT !.ended = TRUE, !.ops = Append(@, "End")]

\* The trace a span belongs to, named by its root span.
RECURSIVE TraceRoot(_)
TraceRoot(id) == IF spans[id].parent = 0 THEN id ELSE TraceRoot(spans[id].parent)

\* The span context of a context whose current span is id, started under
\* parent; id 0: the context carries no span, and its span context is invalid.
SpanContext(id, parent) ==
    [valid |-> id # 0,
     trace_id |-> IF id = 0 THEN 0 ELSE IF parent = 0 THEN id ELSE TraceRoot(parent),
     span_id |-> id]

\* Mutant of LoggerWithContext: the fields are attached without the IsValid test.
LoggerWithContext_Unchecked(sc) ==
    [attached |-> TRUE, trace_id |-> sc.trace_id, span_id |-> sc.span_id]

\* LoggerWithContext: the fields trace_id and span_id that the logger adds to
\* every event, attached only for a valid span context.
LoggerWithContext(sc) ==
    IF sc.valid
    THEN [attached |-> TRUE, trace_id |-> sc.trace_id, span_id |-> sc.span_id]
    ELSE [attached |-> FALSE, trace_id |-> 0, span_id |-> 0]

\* An event written with a logger whose fields are ids.
LogEvent(level, msg, name, ids, err) ==
    [level |-> level, msg |-> msg, span_name |-> name, ids |-> ids, err |-> err]

\* Mutant of WithSpanReturn: the span is ended before the error is recorded.
WithSpanReturn_EndFirst(s, id, err) ==
    [span |-> IF err # NoErr
              THEN SpanSetStatus(SpanRecordError(SpanEnd(s), err), err)
              ELSE SpanEnd(s),
     log |-> IF err # NoErr
             THEN LogEvent("error", "Span error", s.name, id, err)
             ELSE LogEvent("debug", "Completed span", s.name, id, NoErr),
     ret |-> err]

\* Mutant of WithSpanReturn: span.End is not deferred and the error return
\* leaves before it.
WithSpanReturn_ErrorSkipsEnd(s, id, err) ==
    [span |-> IF err # NoErr
              THEN SpanSetStatus(SpanRecordError(s, err), err)
              ELSE SpanEnd(s),
     log |-> IF err # NoErr
             THEN LogEvent("error", "Span error", s.name, id, err)
             ELSE LogEvent("debug", "Completed span", s.name, id, NoErr),
     ret |-> err]

\* WithSpan after fn has returned err: the error is recorded on the span, the
\* status set and an error event logged (or a debug event for nil), err is
\* returned and the deferred span.End runs.
WithSpanReturn(s, id, err) ==
    [span |-> IF err # NoErr
              THEN SpanEnd(SpanSetStatus(SpanRecordError(s, err), err))
              ELSE SpanEnd(s),
     log |-> IF err # NoErr
             THEN LogEvent("error", "Span error", s.name, id, err)
             ELSE LogEvent("debug", "Completed span", s.name, id, NoErr),
     ret |-> err]

\* Mutant of WithSpanUnwind: span.End is a plain call at the end of WithSpan, not
\* deferred, so a panic skips it.
WithSpanUnwind_NotDeferred(s) == s

\* WithSpan unwound by a panic of fn: only the deferred span.End runs.
WithSpanUnwind(s) == SpanEnd(s)

\* The span of the innermost active WithSpan (0: none), the parent of a new span.
CurrentSpan == IF stack = <<>> THEN 0 ELSE stack[Len(stack)].span

\* WithSpan is called, at top level or from the work function of the innermost
\* active call: the span is started, the start is logged and fn is invoked.
WithSpanCall ==
    /\ ~panicking
    /\ Len(spans) < MaxSpans
    /\ Len(stack) < MaxDepth
    /\ \E name \in SpanNames :
          LET id == Len(spans) + 1
          IN  /\ spans' = Append(spans, SpanStart(name, CurrentSpan))
              /\ logs' = Append(logs, LogEvent("debug", "Starting span", name,
                                               LoggerWithContext(SpanContext(id, CurrentSpan)),
                                               NoErr))
              /\ stack' = Append(stack, [span |-> id, calls |-> 1])
    /\ UNCHANGED <<appLogs, panicking, done>>
    /\ UNCHANGED <<provVars, grpVars, expVars, smpVars, appVars>>

\* The work function of the innermost active WithSpan returns err (nil or not),
\* and WithSpan runs to its return.
WorkReturns ==
    /\ ~panicking
    /\ stack # <<>>
    /\ \E err \in {NoErr} \cup WorkErrors :
          LET f == stack[Len(stack)]
              r == WithSpanReturn(spans[f.span],
                                  LoggerWithContext(SpanContext(f.span, spans[f.span].parent)),
                                  err)
          IN  /\ spans' = [spans EXCEPT ![f.span] = r.span]
              /\ logs' = Append(logs, r.log)
              /\ done' = Append(done, [span |-> f.span, calls |-> f.calls,
                                       workErr |-> err, ret |-> r.ret,
                                       panicked |-> FALSE])
              /\ stack' = SubSeq(stack, 1, Len(stack) - 1)
    /\ UNCHANGED <<appLogs, panicking>>
    /\ UNCHANGED <<provVars, grpVars, expVars, smpVars, appVars>>

\* The work function of the innermost active WithSpan panics.
WorkPanics ==
    /\ ~panicking
    /\ stack # <<>>
    /\ panicking' = TRUE
    /\ UNCHANGED <<stack, spans, logs, appLogs, done>>
    /\ UNCHANGED <<provVars, grpVars, expVars, smpVars, appVars>>

\* The panic unwinds the innermost active WithSpan and goes on into its caller:
\* the enclosing work function, or the code that made the outermost call.
PanicUnwinds ==
    /\ panicking
    /\ stack # <<>>
    /\ LET f == stack[Len(stack)]
       IN  /\ spans' = [spans EXCEPT ![f.span] = WithSpanUnwind(spans[f.span])]
           /\ done' = Append(done, [span |-> f.span, calls |-> f.calls,
                                    workErr |-> NoErr, ret |-> NoErr,
                                    panicked |-> TRUE])
           /\ stack' = SubSeq(stack, 1, Len(stack) - 1)
           /\ panicking' = (Len(stack) > 1)
    /\ UNCHANGED <<logs, appLogs>>
    /\ UNCHANGED <<provVars, grpVars, expVars, smpVars, appVars>>

\* The work function of the innermost active WithSpan recovers the panic (its
\* own, or that of a nested call) and goes on.
WorkRecovers ==
    /\ panicking
    /\ stack # <<>>
    /\ panicking' = FALSE
    /\ UNCHANGED <<stack, spans, logs, appLogs, done>>
    /\ UNCHANGED <<provVars, grpVars, expVars, smpVars, appVars>>

\* The running code (the innermost work function, or the caller when no
\* WithSpan call is active) logs an event with LoggerWithContext(ctx); the
\* span_name of the event is the span its context carries ("": none).
WorkLogs ==
    /\ ~panicking
    /\ LET cur == CurrentSpan
           sc == SpanContext(cur, IF cur = 0 THEN 0 ELSE spans[cur].parent)
       IN  appLogs' = <<LogEvent("info", "work",
                                 IF cur = 0 THEN "" ELSE spans[cur].name,
                                 LoggerWithContext(sc), NoErr)>>
    /\ UNCHANGED <<stack, spans, logs, panicking, done>>
    /\ UNCHANGED <<provVars, grpVars, expVars, smpVars, appVars>>

NextSpan ==
    \/ WithSpanCall
    \/ WorkReturns
    \/ WorkPanics
    \/ PanicUnwinds
    \/ WorkRecovers
    \/ WorkLogs

SpecSpan == Init /\ [][NextSpan]_vars

(***************************************************************************)
(* Structured concurrency combinators over errgroup                        *)
(***************************************************************************)
Combinators ==
    {"GoWithContext", "GoWithSpan", "GoForEach", "GoForEachWithSpan",
     "GoWithLimit", "GoWithLimitAndSpan"}

\* The combinators that run one task, that call g.SetLimit, that wrap in WithSpan.
Single(kind) == kind \in {"GoWithContext", "GoWithSpan"}
Limited(kind) == kind \in {"GoWithLimit", "GoWithLimitAndSpan"}
Spanned(kind) == kind \in {"GoWithSpan", "GoForEachWithSpan", "GoWithLimitAndSpan"}

\* The concurrency arguments tried: negative, zero and positive.
Limits == -1 .. MaxLimit

\* ctx.Err() of a cancelled context, which a cooperating task may return.
CtxCanceled == <<"context canceled">>

\* errgroup.WithContext(ctx): a group with no limit, and a context derived from
\* ctx, cancelled from the start when ctx is.
GroupWithContext(parentDone) ==
    [cancelled |-> parentDone, err |-> NoErr, errOnce |-> FALSE,
     limited |-> FALSE, cap |-> 0, sem |-> 0, wg |-> 0]

\* g.SetLimit(n): a negative n means no limit; otherwise a semaphore of n
\* tokens (none can ever be taken when n is 0).
GroupSetLimit(g, n) ==
    IF n < 0
    THEN [g EXCEPT !.limited = FALSE]
    ELSE [g EXCEPT !.limited = TRUE, !.cap = n]

\* Mutant of GroupCanGo: the limit is never applied.
GroupCanGo_NoLimit(g) == TRUE

\* g.Go blocks until a token is free; the derived context is not consulted.
GroupCanGo(g) == ~g.limited \/ g.sem < g.cap

\* g.Go, once admitted: a token is taken and the goroutine is counted.
GroupGo(g) ==
    [g EXCEPT !.sem = IF g.limited THEN @ + 1 ELSE @, !.wg = @ + 1]

\* Mutant of GroupTaskExit: the goroutine ends without giving its token back.
GroupTaskExit_KeepsToken(g, err) ==
    LET first == err # NoErr /\ ~g.errOnce
    IN  [g EXCEPT !.err = IF first THEN err ELSE @,
                  !.errOnce = @ \/ first,
                  !.cancelled = @ \/ first,
                  !.wg = @ - 1]

\* Mutant of GroupTaskExit: every non-nil error is written to g.err, so a later
\* failure replaces the first.
GroupTaskExit_LastWins(g, err) ==
    [g EXCEPT !.err = IF err # NoErr THEN err ELSE @,
              !.errOnce = @ \/ err # NoErr,
              !.cancelled = @ \/ err # NoErr,
              !.sem = IF g.limited THEN @ - 1 ELSE @,
              !.wg = @ - 1]

\* Mutant of GroupTaskExit: the first error is kept but the derived context is
\* not cancelled.
GroupTaskExit_NoCancel(g, err) ==
    LET first == err # NoErr /\ ~g.errOnce
    IN  [g EXCEPT !.err = IF first THEN err ELSE @,
                  !.errOnce = @ \/ first,
                  !.sem = IF g.limited THEN @ - 1 ELSE @,
                  !.wg = @ - 1]

\* The goroutine of g.Go after f returned err: the first non-nil error is kept
\* (errOnce) and cancels the derived context; then the token is given back and
\* the goroutine is counted out.
GroupTaskExit(g, err) ==
    LET first == err # NoErr /\ ~g.errOnce
    IN  [g EXCEPT !.err = IF first THEN err ELSE @,
                  !.errOnce = @ \/ first,
                  !.cancelled = @ \/ first,
                  !.sem = IF g.limited THEN @ - 1 ELSE @,
                  !.wg = @ - 1]

\* Mutant of GroupWaitReady: Wait does not wait for the goroutines.
GroupWaitReady_NoWait(g) == TRUE

\* g.Wait blocks until every goroutine has been counted out.
GroupWaitReady(g) == g.wg = 0

\* Mutant of GroupWait: Wait returns g.err and leaves the derived context alone.
GroupWait_NoCancel(g) == [g |-> g, ret |-> g.err]

\* Mutant of GroupWait: the combinator drops the result of g.Wait.
GroupWait_Dropped(g) == [g |-> [g EXCEPT !.cancelled = TRUE], ret |-> NoErr]

\* g.Wait, once unblocked: the derived context is cancelled and g.err returned.
GroupWait(g) == [g |-> [g EXCEPT !.cancelled = TRUE], ret |-> g.err]

\* A task that has no span (the plain combinators).
NoSpan ==
    [name |-> <<>>, parent |-> 0, status |-> "None", statusMsg |-> NoErr,
     recorded |-> <<>>, ended |-> FALSE, ops |-> <<>>]

PendingTask ==
    [state |-> "pending", item |-> 0, calls |-> 0, err |-> NoErr, ret |-> NoErr,
     lateStart |-> FALSE, lateReturn |-> FALSE, span |-> NoSpan,
     fnCtx |-> <<>>, log |-> <<>>]

\* Mutant of ItemSpanName: the loop index is left out of the span name.
ItemSpanName_NoIndex(i) == <<"batch", "0">>

\* fmt.Sprintf("%s-%d", name, i) for the loop index i, counted from 0 in the code.
ItemSpanName(i) == <<"batch", ToString(i - 1)>>

\* GoWithSpan names its span name; the fan-outs name one span per item.
TaskSpanName(kind, i) == IF Single(kind) THEN <<"batch">> ELSE ItemSpanName(i)

\* Mutant of LoopItem: the closure reads the loop variable, which by then holds
\* the last item.
LoopItem_Shared(i, n) == n

\* The item the closure of loop index i works on: its own copy (item := item).
LoopItem(i, n) == i

\* The closure handed to g.Go starts: fn is invoked on its item, inside a new
\* span for the span-wrapping combinators.
TaskStart(kind, i, n, cancelled) ==
    [state |-> "running", item |-> LoopItem(i, n), calls |-> 1,
     err |-> NoErr, ret |-> NoErr,
     lateStart |-> cancelled, lateReturn |-> FALSE,
     span |-> IF Spanned(kind) THEN SpanStart(TaskSpanName(kind, i), 0) ELSE NoSpan,
     fnCtx |-> IF Spanned(kind) THEN TaskSpanName(kind, i) ELSE <<>>,
     log |-> IF Spanned(kind)
             THEN <<LogEvent("debug", "Starting span", TaskSpanName(kind, i),
                             LoggerWithContext(SpanContext(i, 0)), NoErr)>>
             ELSE <<>>]

\* Mutant of TaskFinish: the closure returns fn's error without going through
\* the rest of WithSpan.
TaskFinish_Bare(kind, t, i, err, cancelled) ==
    [t EXCEPT !.state = "returned", !.err = err, !.ret = err, !.lateReturn = cancelled]

\* fn returns err: the closure returns it, through WithSpan for the
\* span-wrapping combinators.
TaskFinish(kind, t, i, err, cancelled) ==
    LET w == WithSpanReturn(t.span, LoggerWithContext(SpanContext(i, 0)), err)
    IN  [t EXCEPT !.state = "returned",
                  !.err = err,
                  !.ret = IF Spanned(kind) THEN w.ret ELSE err,
                  !.lateReturn = cancelled,
                  !.span = IF Spanned(kind) THEN w.span ELSE @,
                  !.log = IF Spanned(kind) THEN Append(@, w.log) ELSE @]

\* The caller's context ("parent"), the group's context derived from it by
\* errgroup.WithContext ("derived") and another context derived from the
\* caller's, such as that of a sibling group ("sibling"): which are cancelled.
Contexts ==
    [parent |-> parentCancelled, derived |-> grp.cancelled, sibling |-> sibCancelled]

\* Mutant of ContextCancel: cancelling a context cancels its parent too, and
\* with it every context derived from the parent.
ContextCancel_Upward(cs, c) == [parent |-> TRUE, derived |-> TRUE, sibling |-> TRUE]

\* The cancel function of context c is called: c and the contexts derived from
\* it are cancelled, no other.
ContextCancel(cs, c) ==
    IF c = "parent"
    THEN [parent |-> TRUE, derived |-> TRUE, sibling |-> TRUE]
    ELSE [cs EXCEPT ![c] = TRUE]

\* A combinator is called: errgroup.WithContext, and g.SetLimit(concurrency) in
\* the bounded ones.
CombinatorCall ==
    /\ gPc = "idle"
    /\ \E kind \in Combinators, n \in 0 .. MaxItems, k \in Limits :
          /\ Single(kind) => n = 1
          /\ ~Limited(kind) => k = -1
          /\ gKind' = kind
          /\ gItems' = n
          /\ gLimit' = k
          /\ grp' = IF Limited(kind)
                    THEN GroupSetLimit(GroupWithContext(parentCancelled), k)
                    ELSE GroupWithContext(parentCancelled)
          /\ tasks' = [i \in 1 .. n |-> PendingTask]
    /\ gNext' = 1
    /\ gPc' = "running"
    /\ UNCHANGED <<parentCancelled, gRet, sibCancelled>>
    /\ UNCHANGED <<provVars, spanVars, expVars, smpVars, appVars>>

\* One iteration of the loop: g.Go admits the closure of the next item and
\* starts its goroutine.
GoLaunch ==
    /\ gPc = "running"
    /\ gNext <= gItems
    /\ GroupCanGo(grp)
    /\ grp' = GroupGo(grp)
    /\ tasks' = [tasks EXCEPT ![gNext] = TaskStart(gKind, gNext, gItems, grp.cancelled)]
    /\ gNext' = gNext + 1
    /\ UNCHANGED <<gPc, gKind, gItems, gLimit, parentCancelled, gRet, sibCancelled>>
    /\ UNCHANGED <<provVars, spanVars, expVars, smpVars, appVars>>

\* The per-item function of a running task returns: nil, an error of its own,
\* or, when it looks at its cancelled context, the context's error.
TaskReturns ==
    /\ gPc # "idle"
    /\ \E i \in DOMAIN tasks :
          /\ tasks[i].state = "running"
          /\ \E err \in {NoErr} \cup WorkErrors
                          \cup (IF grp.cancelled THEN {CtxCanceled} ELSE {}) :
                tasks' = [tasks EXCEPT ![i] = TaskFinish(gKind, tasks[i], i, err,
                                                         grp.cancelled)]
    /\ UNCHANGED <<gPc, gKind, gItems, gLimit, gNext, grp, parentCancelled, gRet,
                   sibCancelled>>
    /\ UNCHANGED <<provVars, spanVars, expVars, smpVars, appVars>>

\* The goroutine of a task whose closure has returned runs to its end.
TaskExits ==
    /\ gPc # "idle"
    /\ \E i \in DOMAIN tasks :
          /\ tasks[i].state = "returned"
          /\ LET g == GroupTaskExit(grp, tasks[i].ret)
                 cs == IF g.errOnce /\ ~grp.errOnce
                       THEN ContextCancel(Contexts, "derived")
                       ELSE Contexts
             IN  /\ grp' = g
                 /\ parentCancelled' = cs.parent
                 /\ sibCancelled' = cs.sibling
          /\ tasks' = [tasks EXCEPT ![i].state = "done"]
    /\ UNCHANGED <<gPc, gKind, gItems, gLimit, gNext, gRet>>
    /\ UNCHANGED <<provVars, spanVars, expVars, smpVars, appVars>>

\* The loop is over and g.Wait returns: the combinator returns its result.
CombinatorReturns ==
    /\ gPc = "running"
    /\ gNext > gItems
    /\ GroupWaitReady(grp)
    /\ grp' = GroupWait(grp).g
    /\ gRet' = GroupWait(grp).ret
    /\ gPc' = "returned"
    /\ parentCancelled' = ContextCancel(Contexts, "derived").parent
    /\ sibCancelled' = ContextCancel(Contexts, "derived").sibling
    /\ UNCHANGED <<gKind, gItems, gLimit, gNext, tasks>>
    /\ UNCHANGED <<provVars, spanVars, expVars, smpVars, appVars>>

\* The caller's context is cancelled; a context derived from it is cancelled
\* with it.
ParentCancels ==
    /\ ~parentCancelled
    /\ LET cs == ContextCancel(Contexts, "parent")
       IN  /\ parentCancelled' = cs.parent
           /\ sibCancelled' = cs.sibling
           /\ grp' = IF gPc = "idle" THEN grp ELSE [grp EXCEPT !.cancelled = cs.derived]
    /\ UNCHANGED <<gPc, gKind, gItems, gLimit, gNext, tasks, gRet>>
    /\ UNCHANGED <<provVars, spanVars, expVars, smpVars, appVars>>

NextGroup ==
    \/ CombinatorCall
    \/ GoLaunch
    \/ TaskReturns
    \/ TaskExits
    \/ CombinatorReturns
    \/ ParentCancels

SpecGroup == Init /\ [][NextGroup]_vars

\* The steps of a combinator call and of its tasks, the caller's context
\* staying live.
NextGroupRun ==
    \/ CombinatorCall
    \/ GoLaunch
    \/ TaskReturns
    \/ TaskExits
    \/ CombinatorReturns

\* The scheduler runs every goroutine that can take a step, and every per-item
\* function returns.
SpecGroupFair ==
    /\ Init
    /\ [][NextGroupRun]_vars
    /\ WF_vars(GoLaunch)
    /\ WF_vars(TaskReturns)
    /\ WF_vars(TaskExits)
    /\ WF_vars(CombinatorReturns)

(***************************************************************************)
(* Multi-exporter compositions: multiSpanExporter and multiMetricExporter  *)
(***************************************************************************)
Exporters == {ToString(i) : i \in 1 .. MaxSinks}

\* The argument lists of newMultiSpanExporter / newMultiMetricExporter: distinct
\* exporters in any order.
Registrations ==
    UNION {{e \in [1 .. n -> Exporters] : \A i, j \in 1 .. n : i # j => e[i] # e[j]}
           : n \in 0 .. MaxSinks}

\* The error a wrapped exporter returns when op fails on it.
ExporterError(op, x) == <<op, x>>

SendResult(offered, err) == [offered |-> offered, err |-> err]

\* The export method of the composition's wrapped exporters.
ExportOp(kind) == IF kind = "multiSpanExporter" THEN "ExportSpans" ELSE "Export"

\* for _, exporter := range e, from index k on: the exporter is offered the
\* batch; its error ends the loop and is returned as it is.
RECURSIVE ExportLoop(_, _, _, _, _)
ExportLoop(e, k, F, op, offered) ==
    IF k > Len(e)
    THEN SendResult(offered, NoErr)
    ELSE IF e[k] \in F
    THEN SendResult(Append(offered, e[k]), ExporterError(op, e[k]))
    ELSE ExportLoop(e, k + 1, F, op, Append(offered, e[k]))

\* The same loop, not ended by an error: the first error is returned at the end.
RECURSIVE ExportLoop_Continue(_, _, _, _, _, _)
ExportLoop_Continue(e, k, F, op, offered, err) ==
    IF k > Len(e)
    THEN SendResult(offered, err)
    ELSE ExportLoop_Continue(e, k + 1, F, op, Append(offered, e[k]),
                             IF e[k] \in F /\ err = NoErr
                             THEN ExporterError(op, e[k]) ELSE err)

\* The same loop, ranging over e from its last element to its first.
RECURSIVE ExportLoop_Reversed(_, _, _, _, _)
ExportLoop_Reversed(e, k, F, op, offered) ==
    IF k < 1
    THEN SendResult(offered, NoErr)
    ELSE IF e[k] \in F
    THEN SendResult(Append(offered, e[k]), ExporterError(op, e[k]))
    ELSE ExportLoop_Reversed(e, k - 1, F, op, Append(offered, e[k]))

\* Mutant of MultiExport: a failing exporter does not end the loop.
MultiExport_Continue(kind, e, F) ==
    ExportLoop_Continue(e, 1, F, ExportOp(kind), <<>>, NoErr)

\* Mutant of MultiExport: the exporters are offered the batch last to first.
MultiExport_Reversed(kind, e, F) ==
    ExportLoop_Reversed(e, Len(e), F, ExportOp(kind), <<>>)

\* multiSpanExporter.ExportSpans and multiMetricExporter.Export (the same
\* body): F is the set of wrapped exporters whose export fails when attempted.
MultiExport(kind, e, F) == ExportLoop(e, 1, F, ExportOp(kind), <<>>)

\* Mutant of DownCallResult: an aggregate error is returned whatever errs holds.
DownCallResult_AlwaysError(F, called, errs) ==
    [ran |-> TRUE, failing |-> F, called |-> called, isNil |-> FALSE, errs |-> errs]

\* What Shutdown hands back: nil if len(errs) is 0, else the aggregate of errs.
DownCallResult(F, called, errs) ==
    [ran |-> TRUE, failing |-> F, called |-> called, isNil |-> errs = <<>>, errs |-> errs]

\* for _, exporter := range e, from index k on: Shutdown is invoked on the
\* exporter and its error appended to errs.
RECURSIVE ShutdownLoop(_, _, _, _, _)
ShutdownLoop(e, k, F, called, errs) ==
    IF k > Len(e)
    THEN DownCallResult(F, called, errs)
    ELSE ShutdownLoop(e, k + 1, F, Append(called, e[k]),
                      IF e[k] \in F
                      THEN Append(errs, ExporterError("Shutdown", e[k]))
                      ELSE errs)

\* The same loop, ended by the first error.
RECURSIVE ShutdownLoop_FailFast(_, _, _, _, _)
ShutdownLoop_FailFast(e, k, F, called, errs) ==
    IF k > Len(e)
    THEN DownCallResult(F, called, errs)
    ELSE IF e[k] \in F
    THEN DownCallResult(F, Append(called, e[k]),
                        Append(errs, ExporterError("Shutdown", e[k])))
    ELSE ShutdownLoop_FailFast(e, k + 1, F, Append(called, e[k]), errs)

\* Mutant of MultiShutdown: the first failing exporter ends the loop.
MultiShutdown_FailFast(e, F) == ShutdownLoop_FailFast(e, 1, F, <<>>, <<>>)

\* multiSpanExporter.Shutdown and multiMetricExporter.Shutdown (the same body):
\* nil when errs is empty, else "multiple errors during shutdown: errs".
MultiShutdown(e, F) == ShutdownLoop(e, 1, F, <<>>, <<>>)

\* newMultiSpanExporter(exporters...) / newMultiMetricExporter(exporters...).
NewMultiExporter ==
    /\ xKind = "none"
    /\ \E kind \in {"multiSpanExporter", "multiMetricExporter"}, e \in Registrations :
          /\ xKind' = kind
          /\ xSinks' = e
    /\ UNCHANGED <<xSends, xSend, xDown>>
    /\ UNCHANGED <<provVars, spanVars, grpVars, smpVars, appVars>>

\* The SDK hands the next batch to the composition.
ExportCall ==
    /\ xKind # "none"
    /\ xSends < MaxSends
    /\ \E F \in SUBSET {xSinks[i] : i \in DOMAIN xSinks} :
          LET r == MultiExport(xKind, xSinks, F)
          IN  xSend' = [batch |-> xSends + 1, failing |-> F,
                        offered |-> r.offered, err |-> r.err]
    /\ xSends' = xSends + 1
    /\ UNCHANGED <<xKind, xSinks, xDown>>
    /\ UNCHANGED <<provVars, spanVars, grpVars, smpVars, appVars>>

\* The SDK shuts the composition down; nothing in it refuses a later call.
ExporterShutdownCall ==
    /\ xKind # "none"
    /\ \E F \in SUBSET {xSinks[i] : i \in DOMAIN xSinks} :
          xDown' = MultiShutdown(xSinks, F)
    /\ UNCHANGED <<xKind, xSinks, xSends, xSend>>
    /\ UNCHANGED <<provVars, spanVars, grpVars, smpVars, appVars>>

NextExporter ==
    \/ NewMultiExporter
    \/ ExportCall
    \/ ExporterShutdownCall

SpecExporter == Init /\ [][NextExporter]_vars

(***************************************************************************)
(* Sampler selection in SetupTracing and the decisions of the sampler      *)
(***************************************************************************)
\* float64 values of cfg.SamplingRatio: num / RatioScale from -1 to 2, and NaN
\* (getEnvFloat accepts whatever parses as a float).
Ratios ==
    {[nan |-> FALSE, num |-> n] : n \in -RatioScale .. 2 * RatioScale}
        \cup {[nan |-> TRUE, num |-> 0]}

\* r >= 1.0 and r <= 0.0 on float64: both false for NaN.
RatioGeqOne(r) == ~r.nan /\ r.num >= RatioScale
RatioLeqZero(r) == ~r.nan /\ r.num <= 0

TraceIDs == 0 .. MaxTraceID

\* The sampler compares the low half of the trace identifier, shifted right by
\* one bit, with fraction * 2^63: here identifiers are 0 .. MaxTraceID and the
\* shifted value ranges over 0 .. TraceIDRange - 1.
TraceIDRange == (MaxTraceID + 1) \div 2

\* uint64(NaN) is implementation-dependent: the builds yield 0 or the top value.
NaNBounds == {0, TraceIDRange}

AlwaysSample == [kind |-> "AlwaysSample", bound |-> 0]
NeverSample == [kind |-> "NeverSample", bound |-> 0]

\* sdktrace.TraceIDRatioBased(fraction): the upper bound is fraction * range,
\* truncated.
TraceIDRatioBased(r, nanBound) ==
    IF RatioGeqOne(r)
    THEN AlwaysSample
    ELSE [kind |-> "TraceIDRatioBased",
          bound |-> IF r.nan THEN nanBound
                    ELSE IF RatioLeqZero(r) THEN 0
                    ELSE (r.num * TraceIDRange) \div RatioScale]

\* Mutant of SelectSampler: the second test is r < 0.0, so a ratio of exactly 0
\* goes to the ratio sampler.
SelectSampler_ZeroIsRatio(r, nanBound) ==
    IF RatioGeqOne(r)
    THEN AlwaysSample
    ELSE IF ~r.nan /\ r.num < 0
    THEN NeverSample
    ELSE TraceIDRatioBased(r, nanBound)

\* SetupTracing, sampler configuration.
SelectSampler(r, nanBound) ==
    IF RatioGeqOne(r)
    THEN AlwaysSample
    ELSE IF RatioLeqZero(r)
    THEN NeverSample
    ELSE TraceIDRatioBased(r, nanBound)

\* Mutant of ShouldSample: the ratio sampler decides by the span's name.
ShouldSample_ByName(smp, id, name) ==
    CASE smp.kind = "AlwaysSample" -> "RecordAndSample"
      [] smp.kind = "NeverSample" -> "Drop"
      [] OTHER -> IF name = "a" THEN "RecordAndSample" ELSE "Drop"

\* Sampler.ShouldSample for a span called name of the trace id.
ShouldSample(smp, id, name) ==
    CASE smp.kind = "AlwaysSample" -> "RecordAndSample"
      [] smp.kind = "NeverSample" -> "Drop"
      [] OTHER -> IF id \div 2 < smp.bound THEN "RecordAndSample" ELSE "Drop"

\* SetupTracing configures the sampler from cfg.SamplingRatio.
SetupSampler ==
    /\ sRuns = 0
    /\ \E r \in Ratios, b \in NaNBounds :
          /\ r.nan \/ b = 0
          /\ sRatio' = r
          /\ sNaN' = b
          /\ sampler' = SelectSampler(r, b)
    /\ sRuns' = 1
    /\ UNCHANGED sSeen
    /\ UNCHANGED <<provVars, spanVars, grpVars, expVars, appVars>>

\* Another run of the process with the same configuration.
SetupSamplerAgain ==
    /\ sRuns >= 1
    /\ sRuns < MaxRuns
    /\ sampler' = SelectSampler(sRatio, sNaN)
    /\ sRuns' = sRuns + 1
    /\ UNCHANGED <<sRatio, sNaN, sSeen>>
    /\ UNCHANGED <<provVars, spanVars, grpVars, expVars, appVars>>

\* A span of some trace is started and the sampler decides on it.
SpanSampled ==
    /\ sRuns >= 1
    /\ \E id \in TraceIDs, name \in SpanNames :
          sSeen' = [sSeen EXCEPT ![id] =
                        [decisions |-> @.decisions \cup {ShouldSample(sampler, id, name)},
                         again |-> @.decisions # {}]]
    /\ UNCHANGED <<sRuns, sRatio, sNaN, sampler>>
    /\ UNCHANGED <<provVars, spanVars, grpVars, expVars, appVars>>

NextSampler == SetupSampler \/ SetupSamplerAgain \/ SpanSampled

SpecSampler == Init /\ [][NextSampler]_vars

(***************************************************************************)
(* The example program: runBasicExample and runServicesDemo                *)
(***************************************************************************)
\* const numWorkers = 3: the limit runBasicExample passes to GoWithLimitAndSpan.
numWorkers == 3

Instruments == <<"counter", "histogram", "recorder">>

\* Number of Provider.Shutdown calls among the deferred calls a returning function
\* runs (last registered first).
RECURSIVE DeferredShutdowns(_)
DeferredShutdowns(defers) ==
    IF defers = <<>> THEN 0
    ELSE (IF defers[Len(defers)] = "provider.Shutdown" THEN 1 ELSE 0)
             + DeferredShutdowns(SubSeq(defers, 1, Len(defers) - 1))

\* os.Exit(1): the process ends at once; deferred calls are not run.
OsExit ==
    /\ exPc' = "exited"
    /\ exExit' = "os.Exit"
    /\ UNCHANGED <<exDefers, exShutdowns>>

\* main: the example selected by os.Args[1]; signal.NotifyContext and defer cancel().
ExampleStarts ==
    /\ exPc = "start"
    /\ \E mode \in {"basic", "services"} : exMode' = mode
    /\ exPc' = "init"
    /\ exDefers' = <<"cancel">>
    /\ UNCHANGED <<exProvider, exItems, exShutdowns, exExit>>
    /\ UNCHANGED <<libVars, stVars, prVars>>

\* initTelemetry: on an error the example prints it and exits; otherwise
\* defer provider.Shutdown(context.Background()).
InitTelemetry ==
    /\ exPc = "init"
    /\ \E ok \in BOOLEAN :
          IF ok
          THEN /\ exProvider' = TRUE
               /\ exDefers' = Append(exDefers, "provider.Shutdown")
               /\ exPc' = IF exMode = "basic" THEN Instruments[1] ELSE "work"
               /\ exItems' = IF exMode = "basic" THEN exItems
                              ELSE [i \in 1 .. MaxWorkItems |-> "pending"]
               /\ UNCHANGED <<exShutdowns, exExit>>
          ELSE /\ OsExit
               /\ UNCHANGED <<exProvider, exItems>>
    /\ UNCHANGED <<exMode>>
    /\ UNCHANGED <<libVars, stVars, prVars>>

\* runBasicExample: the three metric instruments; a failure logs and exits.
CreateInstrument ==
    /\ \E k \in DOMAIN Instruments :
          /\ exPc = Instruments[k]
          /\ \E ok \in BOOLEAN :
                IF ok
                THEN /\ exPc' = IF k < Len(Instruments) THEN Instruments[k + 1] ELSE "work"
                     /\ exItems' = IF k < Len(Instruments) THEN exItems
                                    ELSE [i \in 1 .. MaxWorkItems |-> "pending"]
                     /\ UNCHANGED <<exDefers, exShutdowns, exExit>>
                ELSE /\ OsExit
                     /\ UNCHANGED <<exItems>>
    /\ UNCHANGED <<exMode, exProvider>>
    /\ UNCHANGED <<libVars, stVars, prVars>>

\* A goroutine starts on an item: at most numWorkers at a time in the basic example,
\* one goroutine per test datum in the services demo.
ItemStarts ==
    /\ exPc = "work"
    /\ \E i \in DOMAIN exItems :
          /\ exItems[i] = "pending"
          /\ exMode = "basic" =>
                Cardinality({j \in DOMAIN exItems : exItems[j] = "running"}) < numWorkers
          /\ exItems' = [exItems EXCEPT ![i] = "running"]
    /\ UNCHANGED <<exMode, exPc, exProvider, exDefers, exShutdowns, exExit>>
    /\ UNCHANGED <<libVars, stVars, prVars>>

\* processItem / processor.ProcessData returns, with or without an error.
ItemFinishes ==
    /\ exPc = "work"
    /\ \E i \in DOMAIN exItems, ok \in BOOLEAN :
          /\ exItems[i] = "running"
          /\ exItems' = [exItems EXCEPT ![i] = IF ok THEN "ok" ELSE "err"]
    /\ UNCHANGED <<exMode, exPc, exProvider, exDefers, exShutdowns, exExit>>
    /\ UNCHANGED <<libVars, stVars, prVars>>

\* GoWithLimitAndSpan returns (basic): an error logs and exits.  wg.Wait returns
\* (services): a failed task has only been logged.
BatchReturns ==
    /\ exPc = "work"
    /\ \A i \in DOMAIN exItems : exItems[i] \in {"ok", "err"}
    /\ IF exMode = "basic" /\ (\E i \in DOMAIN exItems : exItems[i] = "err")
       THEN OsExit
       ELSE /\ exPc' = "stopping"
            /\ UNCHANGED <<exDefers, exShutdowns, exExit>>
    /\ UNCHANGED <<exMode, exProvider, exItems>>
    /\ UNCHANGED <<libVars, stVars, prVars>>

\* The example function returns: its deferred calls run, then main returns.
ExampleReturns ==
    /\ exPc = "stopping"
    /\ exShutdowns' = exShutdowns + DeferredShutdowns(exDefers)
    /\ exDefers' = <<>>
    /\ exPc' = "exited"
    /\ exExit' = "return"
    /\ UNCHANGED <<exMode, exProvider, exItems>>
    /\ UNCHANGED <<libVars, stVars, prVars>>

NextExample ==
    \/ ExampleStarts
    \/ InitTelemetry
    \/ CreateInstrument
    \/ ItemStarts
    \/ ItemFinishes
    \/ BatchReturns
    \/ ExampleReturns

SpecExample == Init /\ [][NextExample]_vars

(***************************************************************************)
(* Storage: StoreData and GetData called from several goroutines           *)
(***************************************************************************)
\* s.mu.Lock() can proceed: no writer and no reader holds the mutex.
CanLock_Unguarded(mu) == TRUE

CanLock(mu) == mu.writer = 0 /\ mu.readers = {}

\* s.mu.RLock() can proceed: no writer holds the mutex.
CanRLock(mu) == mu.writer = 0

\* s.data[id] = data
MapWrite(table, id, data) == [table EXCEPT ![id] = [exists |-> TRUE, data |-> data]]

\* The size test of the write operation, made after the map write.
WriteOperationError(data) ==
    IF data.len > MaxStoreSize THEN <<"data too large to store">> ELSE <<>>

\* data, exists = s.data[id], and the test on exists.
ReadOperationError(entry) ==
    IF ~entry.exists THEN <<"data with id not found">> ELSE <<>>

StorageError(err) == IF err = <<>> THEN <<>> ELSE Wrap("storage operation failed", err)

CallerFree(g) == stCalls[g].pc \in {"idle", "returned"}

\* A goroutine calls StoreData(ctx, id, data).
StoreDataCall ==
    /\ stMade < MaxStoreCalls
    /\ \E g \in DOMAIN stCalls, id \in StoreIDs, data \in Payloads :
          /\ CallerFree(g)
          /\ stCalls' = [stCalls EXCEPT ![g] =
                            [NoCall EXCEPT !.op = "StoreData", !.pc = "called", !.id = id,
                                           !.data = data, !.before = stData[id]]]
    /\ stMade' = stMade + 1
    /\ UNCHANGED <<stData, stMu, stDone>>
    /\ UNCHANGED <<libVars, exVars, prVars>>

\* s.mu.Lock()
StoreLocks ==
    /\ \E g \in DOMAIN stCalls :
          /\ stCalls[g].op = "StoreData" /\ stCalls[g].pc = "called"
          /\ CanLock(stMu)
          /\ stMu' = [stMu EXCEPT !.writer = g]
          /\ stCalls' = [stCalls EXCEPT ![g].pc = "locked"]
    /\ UNCHANGED <<stData, stMade, stDone>>
    /\ UNCHANGED <<libVars, exVars, prVars>>

\* s.data[id] = data; every other call on the same id has now seen a write.
StoreWrites ==
    /\ \E g \in DOMAIN stCalls :
          /\ stCalls[g].op = "StoreData" /\ stCalls[g].pc = "locked"
          /\ stData' = MapWrite(stData, stCalls[g].id, stCalls[g].data)
          /\ stCalls' = [h \in DOMAIN stCalls |->
                            IF h = g THEN [stCalls[h] EXCEPT !.pc = "written"]
                            ELSE IF stCalls[h].id = stCalls[g].id
                            THEN [stCalls[h] EXCEPT !.clean = FALSE]
                            ELSE stCalls[h]]
    /\ UNCHANGED <<stMu, stMade, stDone>>
    /\ UNCHANGED <<libVars, exVars, prVars>>

\* s.mu.Unlock(): the locked section of this write is complete.
StoreUnlocks ==
    /\ \E g \in DOMAIN stCalls :
          /\ stCalls[g].op = "StoreData" /\ stCalls[g].pc = "written"
          /\ stMu' = [stMu EXCEPT !.writer = IF stMu.writer = g THEN 0 ELSE stMu.writer]
          /\ stDone' = [stDone EXCEPT ![stCalls[g].id] =
                                         [exists |-> TRUE, data |-> stCalls[g].data]]
          /\ stCalls' = [stCalls EXCEPT ![g].pc = "unlocked"]
    /\ UNCHANGED <<stData, stMade>>
    /\ UNCHANGED <<libVars, exVars, prVars>>

\* The size test, WithSpan handing its error back, and StoreData returning.
StoreDataReturns ==
    /\ \E g \in DOMAIN stCalls :
          /\ stCalls[g].op = "StoreData" /\ stCalls[g].pc = "unlocked"
          /\ stCalls' = [stCalls EXCEPT
                            ![g].pc = "returned",
                            ![g].err = StorageError(WriteOperationError(stCalls[g].data))]
    /\ UNCHANGED <<stData, stMu, stMade, stDone>>
    /\ UNCHANGED <<libVars, exVars, prVars>>

\* A goroutine calls GetData(ctx, id).
GetDataCall ==
    /\ stMade < MaxStoreCalls
    /\ \E g \in DOMAIN stCalls, id \in StoreIDs :
          /\ CallerFree(g)
          /\ stCalls' = [stCalls EXCEPT ![g] =
                            [NoCall EXCEPT !.op = "GetData", !.pc = "called", !.id = id]]
    /\ stMade' = stMade + 1
    /\ UNCHANGED <<stData, stMu, stDone>>
    /\ UNCHANGED <<libVars, exVars, prVars>>

\* s.mu.RLock(): the writes completed so far are the ones that precede this read.
GetLocks ==
    /\ \E g \in DOMAIN stCalls :
          /\ stCalls[g].op = "GetData" /\ stCalls[g].pc = "called"
          /\ CanRLock(stMu)
          /\ stMu' = [stMu EXCEPT !.readers = @ \cup {g}]
          /\ stCalls' = [stCalls EXCEPT ![g].pc = "locked",
                                        ![g].seen = stDone[stCalls[g].id]]
    /\ UNCHANGED <<stData, stMade, stDone>>
    /\ UNCHANGED <<libVars, exVars, prVars>>

\* data, exists = s.data[id]
GetReads ==
    /\ \E g \in DOMAIN stCalls :
          /\ stCalls[g].op = "GetData" /\ stCalls[g].pc = "locked"
          /\ stCalls' = [stCalls EXCEPT ![g].pc = "read",
                                        ![g].got = stData[stCalls[g].id]]
    /\ UNCHANGED <<stData, stMu, stMade, stDone>>
    /\ UNCHANGED <<libVars, exVars, prVars>>

\* s.mu.RUnlock()
GetUnlocks ==
    /\ \E g \in DOMAIN stCalls :
          /\ stCalls[g].op = "GetData" /\ stCalls[g].pc = "read"
          /\ stMu' = [stMu EXCEPT !.readers = @ \ {g}]
          /\ stCalls' = [stCalls EXCEPT ![g].pc = "unlocked"]
    /\ UNCHANGED <<stData, stMade, stDone>>
    /\ UNCHANGED <<libVars, exVars, prVars>>

\* The test on exists, and GetData returning (nil, error) or (data, nil).
GetDataReturns ==
    /\ \E g \in DOMAIN stCalls :
          /\ stCalls[g].op = "GetData" /\ stCalls[g].pc = "unlocked"
          /\ LET err == StorageError(ReadOperationError(stCalls[g].got))
             IN  stCalls' = [stCalls EXCEPT
                               ![g].pc = "returned",
                               ![g].err = err,
                               ![g].ret = IF err = <<>> THEN stCalls[g].got.data
                                          ELSE NilData]
    /\ UNCHANGED <<stData, stMu, stMade, stDone>>
    /\ UNCHANGED <<libVars, exVars, prVars>>

NextStorage ==
    \/ StoreDataCall
    \/ StoreLocks
    \/ StoreWrites
    \/ StoreUnlocks
    \/ StoreDataReturns
    \/ GetDataCall
    \/ GetLocks
    \/ GetReads
    \/ GetUnlocks
    \/ GetDataReturns

SpecStorage == Init /\ [][NextStorage]_vars

(***************************************************************************)
(* Processor.ProcessData: validate, transform, analyze, store              *)
(***************************************************************************)
PipelineStages == <<"validate", "transform", "analyze", "store">>

StageIndex(stage) == CHOOSE k \in DOMAIN PipelineStages : PipelineStages[k] = stage

\* The error ProcessData returns for the error of a stage.
StageFailure(stage) ==
    CASE stage = "validate" -> "validation failed"
      [] stage = "transform" -> "transformation failed"
      [] stage = "analyze" -> "analysis failed"
      [] stage = "store" -> "storage failed"

\* Where ProcessData goes after a stage: every stage runs regardless of errors.
AfterStage_Continue(stage, err) ==
    IF stage = "store" THEN "returned" ELSE PipelineStages[StageIndex(stage) + 1]

\* Where ProcessData goes after a stage: it returns on an error and after the
\* last stage, and runs the next stage otherwise.
AfterStage(stage, err) ==
    IF err # <<>> \/ stage = "store" THEN "returned" ELSE PipelineStages[StageIndex(stage) + 1]

\* make([]byte, len(data)), copy, and the stage's change of the bytes.
Derived(op, data) ==
    [nil |-> FALSE, len |-> data.len, tag |-> data.tag, ops |-> Append(data.ops, op)]

\* validateData
ValidateData(data) == IF data.len = 0 THEN <<"empty data">> ELSE <<>>

\* transformData: a reversed copy; WithSpan hands back the nil error of the function.
TransformData(data) == [data |-> Derived("reverse", data), err |-> <<>>]

analysisTasks == <<"preprocess", "feature_extraction", "pattern_detection">>

\* One analysis step; detectPatterns fails at random, the others never fail.
AnalysisTask(name, data, failing) ==
    IF name = "pattern_detection" /\ name \in failing
    THEN [data |-> NilSlice, err |-> <<"pattern detection algorithm failed">>]
    ELSE [data |-> Derived(name, data), err |-> <<>>]

\* AnalyzeData: the steps in order, each on the output of the one before; the
\* first error ends the loop.
RECURSIVE AnalysisLoop(_, _, _)
AnalysisLoop(k, data, failing) ==
    IF k > Len(analysisTasks)
    THEN [data |-> data, err |-> <<>>]
    ELSE LET r == AnalysisTask(analysisTasks[k], data, failing)
         IN  IF r.err # <<>>
             THEN [data |-> NilSlice,
                   err |-> Wrap("analysis step failed", <<analysisTasks[k]>> \o r.err)]
             ELSE AnalysisLoop(k + 1, r.data, failing)

AnalyzeData(data, failing) == AnalysisLoop(1, data, failing)

\* The stage has run: it is recorded, and ProcessData either returns
\* (nil, wrapped error), returns (analysisResult, nil), or goes on.
StageDone(stage, out, err) ==
    LET next == AfterStage(stage, err)
    IN  /\ prStages' = Append(prStages, [stage |-> stage, err |-> err])
        /\ prPc' = next
        /\ prData' = out
        /\ prRet' = IF next # "returned" THEN prRet
                    ELSE IF err # <<>>
                    THEN [data |-> NilSlice, err |-> Wrap(StageFailure(stage), err)]
                    ELSE [data |-> out, err |-> <<>>]

\* ProcessData(ctx, dataID, data) is called.
ProcessDataCall ==
    /\ prPc \in {"idle", "returned"}
    /\ prMade < MaxProcessCalls
    /\ \E id \in StoreIDs, data \in ProcessInputs :
          /\ prArgs' = [id |-> id, data |-> data]
          /\ prData' = data
    /\ prMade' = prMade + 1
    /\ prPc' = PipelineStages[1]
    /\ prStages' = <<>>
    /\ prBefore' = prTable
    /\ prRet' = NoReturn
    /\ UNCHANGED <<prTable>>
    /\ UNCHANGED <<libVars, exVars, stVars>>

StageValidate ==
    /\ prPc = "validate"
    /\ StageDone("validate", prData, ValidateData(prData))
    /\ UNCHANGED <<prMade, prArgs, prTable, prBefore>>
    /\ UNCHANGED <<libVars, exVars, stVars>>

StageTransform ==
    /\ prPc = "transform"
    /\ LET r == TransformData(prData)
       IN  StageDone("transform", r.data, r.err)
    /\ UNCHANGED <<prMade, prArgs, prTable, prBefore>>
    /\ UNCHANGED <<libVars, exVars, stVars>>

StageAnalyze ==
    /\ prPc = "analyze"
    /\ \E failing \in SUBSET {"pattern_detection"} :
          LET r == AnalyzeData(prData, failing)
          IN  StageDone("analyze", r.data, r.err)
    /\ UNCHANGED <<prMade, prArgs, prTable, prBefore>>
    /\ UNCHANGED <<libVars, exVars, stVars>>

\* p.storage.StoreData(ctx, dataID, analysisResult): the map write, then the size test.
StageStore ==
    /\ prPc = "store"
    /\ prTable' = MapWrite(prTable, prArgs.id, prData)
    /\ StageDone("store", prData, StorageError(WriteOperationError(prData)))
    /\ UNCHANGED <<prMade, prArgs, prBefore>>
    /\ UNCHANGED <<libVars, exVars, stVars>>

NextProcessor ==
    \/ ProcessDataCall
    \/ StageValidate
    \/ StageTransform
    \/ StageAnalyze
    \/ StageStore

SpecProcessor == Init /\ [][NextProcessor]_vars

(***************************************************************************)
(* Properties of the provider lifecycle                                    *)
(***************************************************************************)
SubProviders == {"MetricProvider", "TraceProvider", "LogProvider"}

SubHandle(p, sub) ==
    CASE sub = "MetricProvider" -> p.metricProvider
      [] sub = "TraceProvider" -> p.traceProvider
      [] sub = "LogProvider" -> p.logProvider

ShutdownMsg(sub) ==
    CASE sub = "MetricProvider" -> "failed to shutdown metrics"
      [] sub = "TraceProvider" -> "failed to shutdown tracing"
      [] sub = "LogProvider" -> "failed to shutdown logging"

Stages == {"SetupLogging", "SetupTracing", "SetupMetrics"}

StageMsg(fn) ==
    CASE fn = "SetupLogging" -> "failed to setup logging"
      [] fn = "SetupTracing" -> "failed to setup tracing"
      [] fn = "SetupMetrics" -> "failed to setup metrics"

StageSub(fn) ==
    CASE fn = "SetupLogging" -> "LogProvider"
      [] fn = "SetupTracing" -> "TraceProvider"
      [] fn = "SetupMetrics" -> "MetricProvider"

\* The error logged with the first event <<op, target>>; NoErr when there is none.
ErrAt(ev, op, target) ==
    IF Pos(ev, op, target) = 0 THEN NoErr ELSE ev[Pos(ev, op, target)].err

Called(ev, fn) == Pos(ev, "call", fn) > 0
StageOk(ev, fn) == Pos(ev, "return", fn) > 0 /\ ErrAt(ev, "return", fn) = NoErr
StageFailed(ev, fn) == Pos(ev, "return", fn) > 0 /\ ErrAt(ev, "return", fn) # NoErr
DownFailed(ev, sub) == Pos(ev, "done", sub) > 0 /\ ErrAt(ev, "done", sub) # NoErr

\* C1: every execution of Provider.Shutdown on a provider built with metrics
\* enabled invokes each of the three sub-provider teardowns once, the metric
\* teardown (to its return) before the trace teardown, and the trace teardown
\* before the log teardown, whichever of them fail.
C1_ShutdownOrder ==
    \A i \in DOMAIN shutdownLog :
        cfg.EnableMetrics =>
            LET ev == shutdownLog[i].ev
            IN  /\ \A sub \in SubProviders : Count(ev, "shutdown", sub) = 1
                /\ Pos(ev, "shutdown", "MetricProvider") < Pos(ev, "done", "MetricProvider")
                /\ Pos(ev, "done", "MetricProvider") < Pos(ev, "shutdown", "TraceProvider")
                /\ Pos(ev, "done", "TraceProvider") < Pos(ev, "shutdown", "LogProvider")

\* A Shutdown with metrics enabled in which all three teardowns fail.
C1_Witness ==
    /\ cfg.EnableMetrics
    /\ \E i \in DOMAIN shutdownLog :
          \A sub \in SubProviders : DownFailed(shutdownLog[i].ev, sub)

\* C2: every execution of Provider.Shutdown invokes the teardown of exactly the
\* sub-providers that are present; it returns nil iff none of them failed, and
\* otherwise an aggregate with exactly one entry, the wrapped error, per failed
\* teardown.
C2_ShutdownAggregates ==
    \A i \in DOMAIN shutdownLog :
        LET r == shutdownLog[i]
            failed == {sub \in SubProviders : DownFailed(r.ev, sub)}
        IN  /\ \A sub \in SubProviders :
                  Count(r.ev, "shutdown", sub)
                      = (IF SubHandle(provider, sub).present THEN 1 ELSE 0)
            /\ r.isNil <=> failed = {}
            /\ r.isNil => r.errs = <<>>
            /\ Len(r.errs) = Cardinality(failed)
            /\ \A sub \in failed :
                  \E k \in DOMAIN r.errs :
                      r.errs[k] = Wrap(ShutdownMsg(sub), ErrAt(r.ev, "done", sub))

\* A Shutdown where the metric and log teardowns fail and the trace teardown
\* between them succeeds.
C2_Witness ==
    \E i \in DOMAIN shutdownLog :
        /\ DownFailed(shutdownLog[i].ev, "MetricProvider")
        /\ Pos(shutdownLog[i].ev, "done", "TraceProvider") > 0
        /\ ~DownFailed(shutdownLog[i].ev, "TraceProvider")
        /\ DownFailed(shutdownLog[i].ev, "LogProvider")
        /\ ~shutdownLog[i].isNil

\* C3: a second Provider.Shutdown on the same provider returns nil and no
\* sub-provider or sink has its Shutdown invoked more than once.
C3_ShutdownIdempotent ==
    Len(shutdownLog) >= 2 =>
        /\ shutdownLog[2].isNil
        /\ shutdownLog[2].ev = <<>>
        /\ \A x \in SubProviders \cup TeardownSteps : Count(events, "shutdown", x) <= 1

\* C4: when SetupMetrics fails in NewProvider, the trace provider is torn down
\* first, then the log provider, and the metric-initialization error is
\* returned with no provider.
C4_MetricFailureTeardownOrder ==
    StageFailed(events, "SetupMetrics") =>
        /\ Count(events, "shutdown", "TraceProvider") = 1
        /\ Count(events, "shutdown", "LogProvider") = 1
        /\ Pos(events, "shutdown", "TraceProvider") < Pos(events, "shutdown", "LogProvider")
        /\ newErr = Wrap("failed to setup metrics", ErrAt(events, "return", "SetupMetrics"))
        /\ ~provider.present

\* C5: when SetupLogging succeeds and SetupTracing fails, the log provider's
\* Shutdown is invoked exactly once, SetupMetrics is never called, the wrapped
\* trace-initialization error is returned and no provider is returned.
C5_TraceInitFailure ==
    (StageOk(events, "SetupLogging") /\ StageFailed(events, "SetupTracing")) =>
        /\ Count(events, "shutdown", "LogProvider") = 1
        /\ Count(events, "shutdown", "log.logger") = 1
        /\ Pos(events, "return", "SetupTracing") < Pos(events, "shutdown", "LogProvider")
        /\ ~Called(events, "SetupMetrics")
        /\ newErr = Wrap("failed to setup tracing", ErrAt(events, "return", "SetupTracing"))
        /\ ~provider.present
        /\ pc = "failed"
        /\ shutdownLog = <<>>

\* NewProvider has returned after SetupTracing failed with metrics enabled, and
\* the log teardown of the error exit failed too.
C5_Witness ==
    /\ pc = "failed"
    /\ cfg.EnableMetrics
    /\ StageOk(events, "SetupLogging")
    /\ StageFailed(events, "SetupTracing")
    /\ DownFailed(events, "LogProvider")

\* C6: NewProvider calls SetupLogging, then SetupTracing, then (only with
\* metrics enabled) SetupMetrics, each after the previous one succeeded; it
\* returns a provider iff every attempted stage succeeded; and after a failure
\* every sub-provider that was initialized has had its Shutdown invoked.
C6_InitOrder ==
    pc # "start" =>
        /\ Pos(events, "call", "SetupLogging") = 1
        /\ \A fn \in Stages : Count(events, "call", fn) <= 1
        /\ Called(events, "SetupTracing") <=> StageOk(events, "SetupLogging")
        /\ Called(events, "SetupTracing") =>
              Pos(events, "return", "SetupLogging") < Pos(events, "call", "SetupTracing")
        /\ Called(events, "SetupMetrics") <=>
              (cfg.EnableMetrics /\ StageOk(events, "SetupTracing"))
        /\ Called(events, "SetupMetrics") =>
              Pos(events, "return", "SetupTracing") < Pos(events, "call", "SetupMetrics")
        /\ provider.present <=> \A fn \in Stages : ~StageFailed(events, fn)
        /\ provider.present <=> pc = "ready"
        /\ provider.present =>
              \A fn \in Stages :
                  SubHandle(provider, StageSub(fn)).present <=> Called(events, fn)
        /\ ~provider.present =>
              \A fn \in Stages :
                  StageOk(events, fn) => Count(events, "shutdown", StageSub(fn)) = 1

\* NewProvider failed in the metrics stage, after two sub-providers were
\* initialized.
C6_Witness ==
    /\ pc = "failed"
    /\ StageOk(events, "SetupLogging")
    /\ StageOk(events, "SetupTracing")
    /\ StageFailed(events, "SetupMetrics")

\* The sinks SetupTracing and SetupMetrics construct.
StageSinks(fn) ==
    CASE fn = "SetupTracing" -> {"trace.console", "trace.otlp", "trace.sdk"}
      [] fn = "SetupMetrics" -> {"metric.console", "metric.otlp", "metric.sdk"}

\* C7: when SetupTracing or SetupMetrics fails, every sink it had constructed
\* has its Shutdown invoked before the error is returned.
C7_PartialSinksTornDown ==
    \A fn \in {"SetupTracing", "SetupMetrics"} :
        StageFailed(events, fn) =>
            \A x \in StageSinks(fn) :
                Pos(events, "new", x) > 0 =>
                    \E i \in DOMAIN events :
                        /\ events[i].op = "shutdown"
                        /\ events[i].target = x
                        /\ Pos(events, "new", x) < i
                        /\ i < Pos(events, "return", fn)

\* C8: when NewProvider fails, it returns the wrapped error of the one stage
\* that failed, whatever the teardowns of the error exit returned.
C8_InitErrorNotMasked ==
    pc = "failed" =>
        /\ Cardinality({fn \in Stages : StageFailed(events, fn)}) = 1
        /\ \A fn \in Stages :
              StageFailed(events, fn) =>
                  newErr = Wrap(StageMsg(fn), ErrAt(events, "return", fn))

\* NewProvider failed and a teardown of its error exit failed as well.
C8_Witness ==
    /\ pc = "failed"
    /\ \E sub \in {"LogProvider", "TraceProvider"} : DownFailed(events, sub)

(***************************************************************************)
(* Properties of span-scoped execution                                     *)
(***************************************************************************)
OpCount(s, op) == Cardinality({k \in DOMAIN s.ops : s.ops[k] = op})

Active == {stack[k].span : k \in DOMAIN stack}

\* C9: every WithSpan call opens one span and closes it exactly once on every
\* exit path: a span is open exactly while its call is active, no span is ended
\* twice, and once every call has returned or been unwound by a panic the
\* number of opened spans equals the number of closed spans.
C9_ScopeClosure ==
    /\ \A i \in DOMAIN spans :
          /\ OpCount(spans[i], "Start") = 1
          /\ OpCount(spans[i], "End") = (IF i \in Active THEN 0 ELSE 1)
          /\ spans[i].ended <=> i \notin Active
    /\ \A k \in DOMAIN done : OpCount(spans[done[k].span], "End") = 1
    /\ Len(done) + Len(stack) = Len(spans)
    /\ stack = <<>> =>
          Len(spans) = Cardinality({i \in DOMAIN spans : OpCount(spans[i], "End") = 1})

\* Every call is over, and the three exit paths were taken: a nil return, an
\* error return and a panic.
C9_Witness ==
    /\ stack = <<>>
    /\ \E k \in DOMAIN done : done[k].panicked
    /\ \E k \in DOMAIN done : ~done[k].panicked /\ done[k].workErr # NoErr
    /\ \E k \in DOMAIN done : ~done[k].panicked /\ done[k].workErr = NoErr

\* C10: a WithSpan call that returns has invoked its work function once and
\* returns exactly what the work returned; the span has status Error and the
\* error recorded iff the work returned a non-nil error, and both are done
\* before the span is ended.
C10_WorkResult ==
    \A k \in DOMAIN done :
        LET d == done[k]
            s == spans[d.span]
        IN  /\ d.calls = 1
            /\ ~d.panicked => d.ret = d.workErr
            /\ s.status = "Error" <=> (~d.panicked /\ d.workErr # NoErr)
            /\ (~d.panicked /\ d.workErr # NoErr) =>
                  /\ s.recorded = <<d.workErr>>
                  /\ s.statusMsg = d.workErr
                  /\ s.ops = <<"Start", "RecordError", "SetStatus", "End">>
            /\ (d.panicked \/ d.workErr = NoErr) =>
                  /\ s.recorded = <<>>
                  /\ s.ops = <<"Start", "End">>

\* A nested WithSpan call returned the error of its work function.
C10_Witness ==
    \E k \in DOMAIN done :
        /\ ~done[k].panicked
        /\ done[k].workErr # NoErr
        /\ done[k].ret = done[k].workErr
        /\ spans[done[k].span].parent # 0


(***************************************************************************)
(* Properties of the concurrency combinators                               *)
(***************************************************************************)
Started == {i \in DOMAIN tasks : tasks[i].state # "pending"}
Running == {i \in DOMAIN tasks : tasks[i].state = "running"}
Failed == {i \in DOMAIN tasks : tasks[i].state \in {"returned", "done"} /\ tasks[i].err # NoErr}
FailedOut == {i \in DOMAIN tasks : tasks[i].state = "done" /\ tasks[i].ret # NoErr}
Invocations(item) == {i \in DOMAIN tasks : tasks[i].calls = 1 /\ tasks[i].item = item}
FanOut == ~Single(gKind) /\ (Limited(gKind) => gLimit >= 1)

\* C11: when a fan-out (a bounded one with K >= 1 included) over N items whose
\* per-item functions all return nil has returned, it returned nil and the
\* function was invoked exactly once for each of the N items.
C11_FanOutComplete ==
    (gPc = "returned" /\ FanOut /\ Failed = {})
        => /\ gRet = NoErr
           /\ \A item \in 1 .. gItems : Cardinality(Invocations(item)) = 1

C11_Witness ==
    /\ gPc = "returned"
    /\ gKind = "GoWithLimitAndSpan"
    /\ gLimit = 1
    /\ gItems = MaxItems
    /\ Failed = {}
    /\ gRet = NoErr

\* C12: a combinator returns nil exactly when every task returned nil, and
\* otherwise returns the error of one of its tasks; with exactly one failing
\* task it returns that task's error.
C12_ErrorPropagation ==
    gPc = "returned"
        => /\ (gRet = NoErr) <=> (Failed = {})
           /\ gRet # NoErr => \E i \in Failed : tasks[i].err = gRet
           /\ \A i \in Failed : Failed = {i} => gRet = tasks[i].err

C12_Witness ==
    /\ gPc = "returned"
    /\ gItems = MaxItems
    /\ \E i \in Failed : Failed = {i} /\ gRet = tasks[i].err /\ i < gItems

\* C13: in a bounded fan-out with limit K >= 1, the number of per-item
\* functions started and not yet returned never exceeds K.
C13_BoundedConcurrency ==
    (gPc # "idle" /\ Limited(gKind) /\ gLimit >= 1)
        => Cardinality(Running) <= gLimit

C13_Witness ==
    /\ gPc = "running"
    /\ Limited(gKind)
    /\ gLimit >= 1
    /\ gItems > gLimit
    /\ gNext <= gItems
    /\ Cardinality(Running) = gLimit

\* C14: a bounded fan-out called with a bound of 0 or less launches no
\* per-item function and returns a non-nil error.
C14_NonPositiveLimitRejected ==
    (gPc # "idle" /\ Limited(gKind) /\ gLimit <= 0)
        => /\ Started = {}
           /\ gPc = "returned" => gRet # NoErr

\* C15: in a bounded fan-out no per-item function is started once the shared
\* context is cancelled.
C15_NoAdmissionAfterCancel ==
    (gPc # "idle" /\ Limited(gKind))
        => \A i \in Started : ~tasks[i].lateStart

\* C16: once the goroutine of a failed task has run, the shared context is
\* cancelled, and a task started after that starts with a cancelled context;
\* while no task has failed and the combinator has not returned, the shared
\* context is cancelled only if the parent context is.
C16_FirstErrorCancels ==
    gPc # "idle"
        => /\ FailedOut # {} => grp.cancelled
           /\ (gPc = "running" /\ grp.cancelled /\ Failed = {}) => parentCancelled

C16_Witness ==
    /\ gPc = "running"
    /\ ~parentCancelled
    /\ FailedOut # {}
    /\ grp.cancelled
    /\ \E j \in Running : tasks[j].lateStart

\* C17: when a combinator has returned, every task it launched has returned
\* and its goroutine has ended, the tasks that ignored the cancellation
\* included.
C17_ReturnsAfterAllTasks ==
    gPc = "returned"
        => /\ Started = DOMAIN tasks
           /\ \A i \in Started : tasks[i].state = "done"

C17_Witness ==
    /\ gPc = "returned"
    /\ gRet # NoErr
    /\ \E i \in Started :
          /\ tasks[i].state = "done"
          /\ tasks[i].lateReturn
          /\ tasks[i].err = NoErr


(***************************************************************************)
(* Properties of the multi-exporter compositions                           *)
(***************************************************************************)
\* Position of exporter x in the sequence e, and how often x occurs in it.
IndexOf(e, x) == CHOOSE i \in DOMAIN e : e[i] = x
Occurrences(e, x) == Cardinality({k \in DOMAIN e : e[k] = x})
Wrapped == {xSinks[i] : i \in DOMAIN xSinks}

\* Position of the first registered exporter that fails under F; 0 when none does.
FirstFailing(e, F) ==
    IF \E i \in DOMAIN e : e[i] \in F
    THEN CHOOSE i \in DOMAIN e : e[i] \in F /\ \A j \in 1 .. i - 1 : e[j] \notin F
    ELSE 0

\* C18: when the exporter at position i is the first to fail for a batch, the
\* exporters before i and exporter i itself were offered the batch once, no
\* exporter after i was offered it, and the composition returned exactly the
\* error of exporter i.
C18_ExportFailFast ==
    xSend.batch >= 1 =>
        LET i == FirstFailing(xSinks, xSend.failing)
        IN  i > 0 =>
              /\ \A j \in 1 .. i : Occurrences(xSend.offered, xSinks[j]) = 1
              /\ \A j \in i + 1 .. Len(xSinks) : Occurrences(xSend.offered, xSinks[j]) = 0
              /\ xSend.err = ExporterError(ExportOp(xKind), xSinks[i])

\* Three exporters, the second fails (the third would fail too): the first two
\* were offered the batch, the third was not.
C18_Witness ==
    /\ xSend.batch >= 1
    /\ Len(xSinks) = 3
    /\ xSend.failing = {xSinks[2], xSinks[3]}
    /\ xSend.offered = <<xSinks[1], xSinks[2]>>
    /\ xSend.err = ExporterError(ExportOp(xKind), xSinks[2])

\* C19: Shutdown of a composition invokes Shutdown once on every wrapped
\* exporter whichever of them fail, returns nil exactly when none failed, and
\* otherwise returns an aggregate holding the error of every exporter that
\* failed.
C19_ShutdownFailSafe ==
    xDown.ran =>
        /\ \A x \in Wrapped : Occurrences(xDown.called, x) = 1
        /\ Len(xDown.called) = Len(xSinks)
        /\ xDown.isNil <=> (xDown.failing = {})
        /\ \A x \in xDown.failing :
              Occurrences(xDown.errs, ExporterError("Shutdown", x)) = 1
        /\ Len(xDown.errs) = Cardinality(xDown.failing)

\* Three exporters, the first fails: the other two are still shut down.
C19_Witness ==
    /\ xDown.ran
    /\ Len(xSinks) = 3
    /\ xDown.failing = {xSinks[1]}
    /\ xDown.called = xSinks
    /\ ~xDown.isNil
    /\ xDown.errs = <<ExporterError("Shutdown", xSinks[1])>>

\* The exporters offered by both of two sends were offered in the same order.
SameOrder(a, b) ==
    \A x, y \in Wrapped :
        (Occurrences(a, x) = 1 /\ Occurrences(a, y) = 1
            /\ Occurrences(b, x) = 1 /\ Occurrences(b, y) = 1)
        => (IndexOf(a, x) < IndexOf(a, y) <=> IndexOf(b, x) < IndexOf(b, y))

\* Within one send the exporters are offered in registration order, and all of
\* them once when none fails.
OfferedInRegistrationOrder ==
    xSend.batch >= 1 =>
        /\ \A a, b \in DOMAIN xSend.offered :
              a < b => IndexOf(xSinks, xSend.offered[a]) < IndexOf(xSinks, xSend.offered[b])
        /\ xSend.failing = {} =>
              \A x \in Wrapped : Occurrences(xSend.offered, x) = 1

\* C20: every send offers the batch to the wrapped exporters in registration
\* order, a send offers them in the same order as the send before it, and when
\* no exporter fails every exporter receives the batch exactly once.
C20_RegistrationOrder ==
    /\ []OfferedInRegistrationOrder
    /\ [][(xSends >= 1 /\ xSends' = xSends + 1)
              => SameOrder(xSend.offered, xSend'.offered)]_vars

\* A second batch delivered to all of three exporters registered in another
\* order than that of their names.
C20_Witness ==
    /\ xSends = 2
    /\ Len(xSinks) = 3
    /\ xSinks[1] # "1"
    /\ xSend.failing = {}
    /\ xSend.offered = xSinks


\* C21: every export offers the batch to every wrapped exporter, also after an
\* earlier exporter failed; the export fails only if an exporter failed, and
\* then with the error of the first one that failed.
C21_EveryMemberOffered ==
    xSend.batch >= 1 =>
        /\ \A x \in Wrapped : Occurrences(xSend.offered, x) = 1
        /\ (xSend.err # NoErr) <=> (xSend.failing # {})
        /\ xSend.failing # {} =>
              xSend.err = ExporterError(ExportOp(xKind),
                                        xSinks[FirstFailing(xSinks, xSend.failing)])

\* C22: on a composition of zero exporters every export returns nil and
\* Shutdown returns nil, and no exporter is invoked.
C22_EmptyCompositionNoOp ==
    (xKind # "none" /\ xSinks = <<>>) =>
        /\ xSend.batch >= 1 => (xSend.err = NoErr /\ xSend.offered = <<>>)
        /\ xDown.ran => (xDown.isNil /\ xDown.called = <<>> /\ xDown.errs = <<>>)

\* An empty composition that exported every batch and was shut down.
C22_Witness ==
    /\ xKind # "none"
    /\ xSinks = <<>>
    /\ xSends = MaxSends
    /\ xSend.batch = MaxSends
    /\ xSend.err = NoErr
    /\ xDown.ran
    /\ xDown.isNil

(***************************************************************************)
(* Properties of the sub-provider teardowns                                *)
(***************************************************************************)
\* C24: every TraceProvider.Shutdown and MetricProvider.Shutdown invokes the
\* shutdown of every exporter of its cleanup chain, whichever of the SDK
\* provider's shutdown and the exporters' shutdowns fail.
C24_SubProviderTeardownFailSafe ==
    \A i \in DOMAIN shutdownLog :
        \A sub \in {"TraceProvider", "MetricProvider"} :
            LET h == SubHandle(provider, sub)
            IN  h.present =>
                  \A k \in DOMAIN h.cleanup :
                      Count(shutdownLog[i].ev, "shutdown", h.cleanup[k]) = 1


(***************************************************************************)
(* Properties of the combinators: errors, scopes and contexts              *)
(***************************************************************************)
\* C23: the error of every per-item function that failed is recorded on the
\* span of its task and logged as an error event, in the plain fan-outs as in
\* the span-wrapping ones, and a combinator with a failed task returns an error.
C23_WorkErrorsRecorded ==
    gPc # "idle" =>
        /\ \A i \in Failed :
              /\ \E k \in DOMAIN tasks[i].span.recorded :
                    tasks[i].span.recorded[k] = tasks[i].err
              /\ \E k \in DOMAIN tasks[i].log :
                    tasks[i].log[k].level = "error" /\ tasks[i].log[k].err = tasks[i].err
        /\ (gPc = "returned" /\ Failed # {}) => gRet # NoErr

PerItemScoped == gKind \in {"GoForEachWithSpan", "GoWithLimitAndSpan"}

\* C27: in a fan-out with per-item scoping the task of the item at index i
\* (counted from 0) opens one span named B-i, hands the context of that span to
\* the per-item function and ends the span once when the function has returned;
\* the names are pairwise distinct, and when the combinator has returned there
\* are as many spans as items.
C27_PerItemScopes ==
    (gPc # "idle" /\ PerItemScoped) =>
        /\ \A i \in Started :
              /\ tasks[i].span.name = <<"batch", ToString(i - 1)>>
              /\ tasks[i].fnCtx = tasks[i].span.name
              /\ OpCount(tasks[i].span, "Start") = 1
              /\ OpCount(tasks[i].span, "End") = (IF tasks[i].state = "running" THEN 0 ELSE 1)
        /\ \A i, j \in Started : i # j => tasks[i].span.name # tasks[j].span.name
        /\ \A i \in DOMAIN tasks \ Started : tasks[i].span = NoSpan
        /\ gPc = "returned" =>
              Cardinality({i \in DOMAIN tasks : tasks[i].span.ended}) = gItems

C27_Witness ==
    /\ gPc = "returned"
    /\ gKind = "GoForEachWithSpan"
    /\ gItems = MaxItems
    /\ Failed # {}
    /\ \A i \in DOMAIN tasks : tasks[i].span.ended

\* C28: a single-task combinator runs one task once; GoWithContext returns
\* what the work function returned, and GoWithSpan returns the result, leaves
\* the span and writes the log events of WithSpan(ctx, name, work).
C28_SingleTaskEquivalence ==
    (gPc # "idle" /\ Single(gKind)) =>
        /\ DOMAIN tasks = {1}
        /\ gPc = "returned" =>
              LET t == tasks[1]
                  w == WithSpanReturn(SpanStart(<<"batch">>, 0),
                                      LoggerWithContext(SpanContext(1, 0)), t.err)
              IN  /\ t.calls = 1
                  /\ gRet = t.err
                  /\ gKind = "GoWithContext" => (t.span = NoSpan /\ t.log = <<>>)
                  /\ gKind = "GoWithSpan" =>
                        /\ gRet = w.ret
                        /\ t.span = w.span
                        /\ t.log = <<LogEvent("debug", "Starting span", <<"batch">>,
                                              LoggerWithContext(SpanContext(1, 0)), NoErr),
                                     w.log>>

C28_Witness ==
    /\ gPc = "returned"
    /\ gKind = "GoWithSpan"
    /\ gRet \in WorkErrors
    /\ tasks[1].span.status = "Error"
    /\ tasks[1].span.ended

\* A step of the combinator or of one of its tasks.
GroupStep == gPc' # gPc \/ gNext' # gNext \/ tasks' # tasks

SamplerKinds == {"AlwaysSample", "NeverSample", "TraceIDRatioBased"}

\* C25: the sampler configured is a function of the ratio alone: the
\* always-sample sampler for r >= 1, the never-sample sampler for r <= 0, the
\* trace-identifier ratio sampler for 0 < r < 1, and one of the three for every
\* r, the same in every run.
C25_SamplerSelection ==
    sRuns >= 1 =>
        /\ sampler.kind \in SamplerKinds
        /\ (~sRatio.nan /\ sRatio.num >= RatioScale) => sampler.kind = "AlwaysSample"
        /\ (~sRatio.nan /\ sRatio.num <= 0) => sampler.kind = "NeverSample"
        /\ (~sRatio.nan /\ 0 < sRatio.num /\ sRatio.num < RatioScale)
              => sampler.kind = "TraceIDRatioBased"
        /\ sampler.kind = "AlwaysSample" => (~sRatio.nan /\ sRatio.num >= RatioScale)
        /\ sampler.kind = "NeverSample" => (~sRatio.nan /\ sRatio.num <= 0)

\* A second run configured with a ratio of exactly 0.
C25_Witness ==
    /\ sRuns = 2
    /\ ~sRatio.nan
    /\ sRatio.num = 0
    /\ sampler.kind = "NeverSample"

C32_SingleWriterError ==
    /\ [](gPc = "returned" => gRet = grp.err)
    /\ [](gPc # "idle" => (grp.errOnce <=> grp.err # NoErr))
    /\ [][grp.errOnce => grp'.err = grp.err]_vars
    /\ [][(~grp.errOnce /\ grp'.errOnce) =>
              /\ grp'.cancelled
              /\ \E i \in DOMAIN tasks :
                    /\ tasks[i].state = "returned"
                    /\ tasks'[i].state = "done"
                    /\ grp'.err = tasks[i].ret]_vars

\* Two tasks failed with different errors; the combinator returned one of them.
C32_Witness ==
    /\ gPc = "returned"
    /\ \E i, j \in FailedOut :
          /\ tasks[i].ret # tasks[j].ret
          /\ gRet = tasks[i].ret

\* C35: when a combinator has returned, the derived context it handed to its
\* tasks is cancelled, also when no task failed and the parent context is live.
C35_CancelledAtReturn ==
    gPc = "returned" => grp.cancelled

C35_Witness ==
    /\ gPc = "returned"
    /\ gItems >= 1
    /\ Failed = {}
    /\ gRet = NoErr
    /\ ~parentCancelled
    /\ grp.cancelled


\* C34: under fair scheduling, with per-item functions that return, every call
\* of a fan-out combinator (a bounded one with K >= 1) returns.
C34_FanOutTerminates ==
    (gPc = "running" /\ FanOut) ~> (gPc = "returned")

\* A bounded fan-out over more items than its bound returned although a task
\* had failed.
C34_Witness ==
    /\ gPc = "returned"
    /\ Limited(gKind)
    /\ gLimit >= 1
    /\ gItems > gLimit
    /\ Failed # {}


(***************************************************************************)
(* Properties of log correlation                                           *)
(***************************************************************************)
\* The events of logs written with the identifiers of span id, by message.
EventsOf(id, msgs) ==
    {k \in DOMAIN logs :
        /\ logs[k].msg \in msgs
        /\ logs[k].ids.attached
        /\ logs[k].ids.span_id = id}

\* The root of the trace of span id, found by following the parents.
RootOf(id) ==
    CHOOSE r \in DOMAIN spans :
        /\ spans[r].parent = 0
        /\ \E path \in UNION {[1 .. n -> DOMAIN spans] : n \in 1 .. Len(spans)} :
              /\ path[1] = id
              /\ path[Len(path)] = r
              /\ \A k \in 1 .. Len(path) - 1 : spans[path[k]].parent = path[k + 1]

\* C33: a WithSpan call that is over wrote one 'Starting span' event and, unless
\* a panic unwound it, after it one 'Completed span' event (work returned nil)
\* or 'Span error' event (with the error work returned); both carry the call's
\* span name and the trace and span identifiers of its span. An event written
\* through LoggerWithContext carries identifiers exactly when its context
\* carries a span, and then those of that span.
C33_LogCorrelation ==
    /\ \A k \in DOMAIN done :
          LET d == done[k]
              starts == EventsOf(d.span, {"Starting span"})
              ends == EventsOf(d.span, {"Completed span", "Span error"})
          IN  /\ Cardinality(starts) = 1
              /\ Cardinality(ends) = (IF d.panicked THEN 0 ELSE 1)
              /\ \A a \in starts :
                    /\ logs[a].span_name = spans[d.span].name
                    /\ logs[a].ids.trace_id = RootOf(d.span)
                    /\ \A b \in ends :
                          /\ a < b
                          /\ logs[b].span_name = logs[a].span_name
                          /\ logs[b].ids = logs[a].ids
                          /\ logs[b].err = d.workErr
                          /\ logs[b].msg = (IF d.workErr = NoErr
                                            THEN "Completed span" ELSE "Span error")
    /\ \A k \in DOMAIN logs : logs[k].ids.attached
    /\ \A k \in DOMAIN appLogs :
          LET e == appLogs[k]
          IN  /\ e.ids.attached <=> e.span_name # ""
              /\ ~e.ids.attached => (e.ids.trace_id = 0 /\ e.ids.span_id = 0)
              /\ e.ids.attached =>
                    /\ e.ids.span_id \in DOMAIN spans
                    /\ spans[e.ids.span_id].name = e.span_name
                    /\ e.ids.trace_id = RootOf(e.ids.span_id)

\* A nested call returned an error and its two events carry the identifiers of
\* its span and of its parent's trace; the code that made the outermost call
\* then logged without a span in its context.
C33_Witness ==
    /\ stack = <<>>
    /\ \E k \in DOMAIN done :
          /\ done[k].workErr # NoErr
          /\ spans[done[k].span].parent # 0
          /\ \E a, b \in DOMAIN logs :
                /\ logs[a].msg = "Starting span"
                /\ logs[b].msg = "Span error"
                /\ logs[a].ids = logs[b].ids
                /\ logs[a].ids.span_id = done[k].span
                /\ logs[a].ids.trace_id = spans[done[k].span].parent
    /\ Len(appLogs) = 1
    /\ ~appLogs[1].ids.attached

(***************************************************************************)
(* C36: during one Provider.Shutdown every exporter of the trace           *)
(* sub-provider has its Shutdown invoked at most once, counting both the   *)
(* invocation reached through the SDK provider and the one of the cleanup  *)
(* chain.                                                                  *)
(***************************************************************************)
ExporterShutdowns(ev, x) == Count(ev, "shutdown", x) + Count(ev, "exporter.shutdown", x)

C36_ExporterShutdownAtMostOnce ==
    \A i \in DOMAIN shutdownLog :
        \A x \in {"trace.console", "trace.otlp"} :
            ExporterShutdowns(shutdownLog[i].ev, x) <= 1

(***************************************************************************)
(* C31: once NewProvider has succeeded, every exit of the example program  *)
(* has been preceded by exactly one Provider.Shutdown.                     *)
(***************************************************************************)
C31_ShutdownOnEveryExit ==
    (exPc = "exited" /\ exProvider) => exShutdowns = 1

(***************************************************************************)
(* C37: a StoreData call that returned an error, with no other write to    *)
(* its id since it was called, has left the table entry of its id as it    *)
(* was when it was called.                                                 *)
(***************************************************************************)
C37_FailedStoreLeavesTable ==
    \A g \in DOMAIN stCalls :
        (/\ stCalls[g].op = "StoreData" /\ stCalls[g].pc = "returned"
         /\ stCalls[g].err # <<>> /\ stCalls[g].clean)
            => stData[stCalls[g].id] = stCalls[g].before

(***************************************************************************)
(* C38: a GetData that returned reports an error when no write to its id   *)
(* had completed its locked section before the read locked, and otherwise  *)
(* returns the bytes of the last such write; and after a successful        *)
(* StoreData(id, d) with no later write to id the table holds d for id.    *)
(***************************************************************************)
C38_StorageLinearizable ==
    \A g \in DOMAIN stCalls :
        /\ (stCalls[g].op = "GetData" /\ stCalls[g].pc = "returned") =>
               IF stCalls[g].seen.exists
               THEN stCalls[g].err = <<>> /\ stCalls[g].ret = stCalls[g].seen.data
               ELSE stCalls[g].err # <<>> /\ stCalls[g].ret = NilData
        /\ (/\ stCalls[g].op = "StoreData" /\ stCalls[g].pc = "returned"
            /\ stCalls[g].err = <<>> /\ stCalls[g].clean) =>
               stData[stCalls[g].id] = [exists |-> TRUE, data |-> stCalls[g].data]

\* A goroutine has returned from GetData with the bytes that a StoreData call of
\* another goroutine wrote for the same id.
C38_Witness ==
    \E g, h \in DOMAIN stCalls :
        /\ g # h
        /\ stCalls[g].op = "GetData" /\ stCalls[g].pc = "returned"
        /\ stCalls[g].err = <<>> /\ stCalls[g].ret \in Payloads
        /\ stCalls[h].op = "StoreData" /\ stCalls[h].pc = "returned"
        /\ stCalls[h].id = stCalls[g].id /\ stCalls[h].data = stCalls[g].ret

(***************************************************************************)
(* C39: the stages a ProcessData call has run are a prefix of validate,    *)
(* transform, analyze, store, in that order, and only the last of them may *)
(* have failed; the store stage has run only after the three others        *)
(* succeeded, so a call with empty input leaves the table as it was; and a *)
(* call that returned has a non-nil result exactly when all four stages    *)
(* ran without an error.                                                   *)
(***************************************************************************)
AllStagesSucceeded ==
    /\ Len(prStages) = Len(PipelineStages)
    /\ \A k \in DOMAIN prStages : prStages[k].err = <<>>

C39_PipelineOrder ==
    /\ Len(prStages) <= Len(PipelineStages)
    /\ \A k \in DOMAIN prStages :
          /\ prStages[k].stage = PipelineStages[k]
          /\ k < Len(prStages) => prStages[k].err = <<>>
    /\ (prPc \notin {"idle", "returned"}) =>
          /\ prPc = PipelineStages[Len(prStages) + 1]
          /\ \A k \in DOMAIN prStages : prStages[k].err = <<>>
    /\ prArgs.data.len = 0 =>
          /\ \A k \in DOMAIN prStages : prStages[k].stage # "store"
          /\ prTable = prBefore
    /\ (\A k \in DOMAIN prStages : prStages[k].stage # "store") => prTable = prBefore
    /\ prPc = "returned" =>
          /\ ~prRet.data.nil <=> AllStagesSucceeded
          /\ prRet.err = <<>> <=> AllStagesSucceeded

\* A call has returned after its analysis failed: three stages ran, nothing was
\* stored, and the result is nil.
C39_Witness ==
    /\ prPc = "returned"
    /\ Len(prStages) = 3
    /\ prStages[3].stage = "analyze" /\ prStages[3].err # <<>>
    /\ prRet.data.nil /\ prRet.err # <<>>
    /\ prMade = MaxProcessCalls
    /\ \E id \in StoreIDs : prBefore[id].exists

====
